---- MODULE Spec2Model ----
(***************************************************************************)
(* NoteMesh: the force-directed graph view.                                *)
(*                                                                         *)
(*   GraphRenderer      (graph.js)        nodes, edges, camera, lifecycle  *)
(*   GraphPhysics       (graph physics)   one force-simulation step        *)
(*   GraphEventHandler  (graph events)    pointer, wheel and touch input   *)
(*   NoteManager / Note                   the note collection it reads     *)
(*   UIManager                            the host that shows the graph    *)
(*                                                                         *)
(* JavaScript numbers are modelled in fixed point: lengths, positions and  *)
(* velocities in 1/Unit of a CSS pixel, the zoom and the unit vectors of   *)
(* the forces in 1/Milli, an edge's strength in tenths.  A division        *)
(* truncates toward zero (Quot), so that a mirrored operand gives the      *)
(* mirrored result, as IEEE rounding does.                                 *)
(***************************************************************************)
EXTENDS Integers, Sequences, FiniteSets, TLC

VARIABLES
    notes,          \* NoteManager.notes: the Map's values in insertion order
    canvas,         \* logical canvas size [w, h] (canvas.width / devicePixelRatio)
    nodes,          \* GraphRenderer.nodes
    edges,          \* GraphRenderer.edges
    gen,            \* identity of the objects of the current node list
    detached,       \* node objects of earlier node lists the event handler still holds
    camera,         \* GraphRenderer.camera, shared with the event handler
    isDragging,     \* GraphEventHandler fields
    isPanning,
    dragNode,
    lastPanPos,
    hoveredNode,
    selectedNode,
    cursor,         \* canvas.style.cursor
    animation,      \* GraphRenderer.animation: [frame, running]
    pendingFrame,   \* the host's pending requestAnimationFrame request, 0 if none
    listeners,      \* the host's registered event listeners: <<target, type, function>>
    drawn,          \* what the last render put on the canvas
    destroyed,      \* history: destroy() has been called
    events,         \* number of input events and frames delivered so far
    lastOp,         \* history: the operation that produced this state, and its pointer
    gesture,        \* history: the mouse gesture in progress or just released
    genNotes,       \* history: the note collection the current graph was built from
    currentView,    \* UIManager.currentView
    replaced,       \* the animation loops of the GraphRenderers the host made before this one
    storage,        \* localStorage item notemesh_notes: [present, data]
    lastCall        \* history: the last call of the NoteManager, what it returned and emitted

vars == <<notes, canvas, nodes, edges, gen, detached, camera, isDragging, isPanning,
          dragNode, lastPanPos, hoveredNode, selectedNode, cursor, animation,
          pendingFrame, listeners, drawn, destroyed, events, lastOp, gesture,
          genNotes, currentView, replaced, storage, lastCall>>

handlerVars == <<isDragging, isPanning, dragNode, lastPanPos, hoveredNode,
                 selectedNode, cursor>>

lifeVars == <<animation, pendingFrame, listeners, drawn, destroyed>>

hostVars == <<currentView, replaced>>

storeVars == <<storage, lastCall>>

(***************************************************************************)
(* Bounds of the model.                                                    *)
(***************************************************************************)
MaxNotes == 4

MaxEvents == 3

MaxWheel == 24

MaxGesture == 6

MaxPasses == 6

MaxHover == 3

MaxRenders == 3

MaxCalls == 3

(***************************************************************************)
(* Fixed-point resolutions.                                                *)
(***************************************************************************)
Unit == 100

Milli == 1000

(***************************************************************************)
(* Arithmetic.                                                             *)
(***************************************************************************)
Abs(a) == IF a < 0 THEN -a ELSE a

Min2(a, b) == IF a < b THEN a ELSE b

Max2(a, b) == IF a > b THEN a ELSE b

Quot(a, b) ==
    IF (a >= 0) = (b > 0) THEN Abs(a) \div Abs(b) ELSE -(Abs(a) \div Abs(b))

RECURSIVE SqrtBetween(_, _, _)
SqrtBetween(n, lo, hi) ==
    IF lo >= hi THEN lo
    ELSE LET mid == (lo + hi + 1) \div 2
         IN  IF mid * mid <= n THEN SqrtBetween(n, mid, hi)
                               ELSE SqrtBetween(n, lo, mid - 1)

Sqrt(n) == SqrtBetween(n, 0, Min2(n, 46340))

Range(s) == {s[k] : k \in 1..Len(s)}

(***************************************************************************)
(* GraphConfig.                                                            *)
(***************************************************************************)
NodeRadius == 8

Repulsion == 100

AttractionPercent == 1

DampingPercent == 95

MaxDistance == 200

\* edge strength, in tenths: 1 for a link, 0.3 for shared tags
LinkStrength == 10

TagStrength == 3

\* the zoom limits of onWheel, 0.1 and 3
ZoomMin == Milli \div 10

ZoomMax == 3 * Milli

(***************************************************************************)
(* Note.  A content is the sequence of its characters; a title, a tag and  *)
(* a link are strings.                                                     *)
(***************************************************************************)
\* where the run of characters other than "]" that starts at i ends: the index after it
RECURSIVE RunEnd(_, _)
RunEnd(content, i) ==
    IF i <= Len(content) /\ content[i] # "]" THEN RunEnd(content, i + 1) ELSE i

\* /\[\[([^\]]+)\]\]/ matched at index i: the index after the match, 0 for no match
MatchEnd(content, i) ==
    LET j == RunEnd(content, i + 2)
    IN  IF /\ i + 1 <= Len(content)
           /\ content[i] = "[" /\ content[i + 1] = "["
           /\ j > i + 2
           /\ j + 1 <= Len(content)
           /\ content[j] = "]" /\ content[j + 1] = "]"
        THEN j + 2
        ELSE 0

\* String.prototype.trim on a sequence of characters
RECURSIVE Trim(_)
Trim(chars) ==
    IF chars = <<>> THEN chars
    ELSE IF Head(chars) = " " THEN Trim(Tail(chars))
    ELSE IF chars[Len(chars)] = " " THEN Trim(SubSeq(chars, 1, Len(chars) - 1))
    ELSE chars

\* the string of a sequence of characters
RECURSIVE Join(_)
Join(chars) == IF chars = <<>> THEN "" ELSE Head(chars) \o Join(Tail(chars))

\* the while loop of extractLinks: the trimmed captures of the matches from index i on
RECURSIVE Matches(_, _)
Matches(content, i) ==
    IF i > Len(content) THEN <<>>
    ELSE LET end == MatchEnd(content, i)
         IN  IF end = 0 THEN Matches(content, i + 1)
             ELSE <<Join(Trim(SubSeq(content, i + 2, end - 3)))>> \o Matches(content, end)

\* [...new Set(links)]: the first occurrence of each element, in order
RECURSIVE Unique(_)
Unique(seq) ==
    IF seq = <<>> THEN seq
    ELSE LET rest == Unique(SubSeq(seq, 1, Len(seq) - 1))
             last == seq[Len(seq)]
         IN  IF \E k \in 1..Len(rest) : rest[k] = last THEN rest ELSE Append(rest, last)

ExtractLinks(content) == Unique(Matches(content, 1))

\* new Note(title, content, tags, id)
NewNote(id, title, content, tags) ==
    [id |-> id, title |-> title, content |-> content, tags |-> tags,
     links |-> ExtractLinks(content)]

\* note.serialize() through JSON.stringify and JSON.parse: an entry of stored or
\* exported data; usable tells an entry whose content is a string, hasLinks one that
\* has a links array
Serialize(note) ==
    [id |-> note.id, title |-> note.title, content |-> note.content,
     tags |-> note.tags, links |-> note.links, hasLinks |-> TRUE, usable |-> TRUE]

\* Note.deserialize of a usable entry: new Note(...), then links = data.links || []
Deserialize(data) ==
    [NewNote(data.id, data.title, data.content, data.tags)
         EXCEPT !.links = IF data.hasLinks THEN data.links ELSE <<>>]

(***************************************************************************)
(* Notes.  Every note of the universe has its own id; titles repeat and    *)
(* differ in case, links are the titles extracted from the content:        *)
(* B; none; c, D; a; b, c, a.                                              *)
(***************************************************************************)
NoteUniverse ==
    { NewNote(1, "A", <<"[", "[", "B", "]", "]">>, <<>>),
      NewNote(2, "B", <<"[", "b", "]">>, <<"x">>),
      NewNote(3, "C", <<"[", "[", "c", "]", "]", " ", "[", "[", "D", "]", "]">>,
              <<"x">>),
      NewNote(4, "b", <<"[", "[", "a", "]", "]">>, <<"x", "y">>),
      NewNote(5, "A",
              <<"[", "[", "b", "]", "]", "[", "[", "c", "]", "]",
                "[", "[", " ", "a", "]", "]", "[", "[", "b", "]", "]">>,
              <<"x">>) }

\* String.prototype.toLowerCase on the letters the titles are made of
Lower(s) ==
    CASE s = "A" -> "a"
      [] s = "B" -> "b"
      [] s = "C" -> "c"
      [] s = "D" -> "d"
      [] OTHER   -> s

(***************************************************************************)
(* GraphRenderer.generateGraph.                                            *)
(***************************************************************************)
\* the node created for a note, at the random position pos
NewNode(note, pos) ==
    [id |-> note.id, title |-> note.title, tags |-> note.tags,
     x |-> pos[1], y |-> pos[2], vx |-> 0, vy |-> 0,
     radius |-> NodeRadius * Unit, connections |-> 0]

\* FindTitle comparing the titles as they are written
FindTitleExact(ns, linkTitle) ==
    LET hits == {k \in 1..Len(ns) : ns[k].title = linkTitle}
    IN  IF hits = {} THEN 0 ELSE CHOOSE k \in hits : \A m \in hits : k <= m

\* this.nodes.find(node => node.title.toLowerCase() === linkTitle.toLowerCase()):
\* the index of the first match, 0 for undefined
FindTitle(ns, linkTitle) ==
    LET hits == {k \in 1..Len(ns) : Lower(ns[k].title) = Lower(linkTitle)}
    IN  IF hits = {} THEN 0 ELSE CHOOSE k \in hits : \A m \in hits : k <= m

\* this.edges.find(edge => ... either orientation ...) is not undefined
ExistingEdge(es, a, b) ==
    \E k \in 1..Len(es) :
        \/ es[k].source = a /\ es[k].target = b
        \/ es[k].source = b /\ es[k].target = a

LinkEdge(a, b) ==
    [source |-> a, target |-> b, strength |-> LinkStrength, type |-> "link",
     commonTags |-> <<>>]

TagEdge(a, b, common) ==
    [source |-> a, target |-> b, strength |-> TagStrength, type |-> "tag",
     commonTags |-> common]

\* LinkStep without the test that keeps a node from linking to itself
LinkStepWithSelf(g, i, linkTitle) ==
    LET t == FindTitle(g.nodes, linkTitle)
    IN  IF /\ t # 0
           /\ ~ExistingEdge(g.edges, g.nodes[i].id, g.nodes[t].id)
        THEN [nodes |-> [g.nodes EXCEPT ![i].connections = @ + 1,
                                        ![t].connections = @ + 1],
              edges |-> Append(g.edges, LinkEdge(g.nodes[i].id, g.nodes[t].id))]
        ELSE g

\* LinkStep counting the connection on the source node alone
LinkStepSourceOnly(g, i, linkTitle) ==
    LET t == FindTitle(g.nodes, linkTitle)
    IN  IF /\ t # 0
           /\ g.nodes[i].id # g.nodes[t].id
           /\ ~ExistingEdge(g.edges, g.nodes[i].id, g.nodes[t].id)
        THEN [nodes |-> [g.nodes EXCEPT ![i].connections = @ + 1],
              edges |-> Append(g.edges, LinkEdge(g.nodes[i].id, g.nodes[t].id))]
        ELSE g

\* the body of the inner loop over sourceNode.note.links; g = [nodes, edges]
LinkStep(g, i, linkTitle) ==
    LET t == FindTitle(g.nodes, linkTitle)
    IN  IF /\ t # 0
           /\ g.nodes[i].id # g.nodes[t].id
           /\ ~ExistingEdge(g.edges, g.nodes[i].id, g.nodes[t].id)
        THEN [nodes |-> [g.nodes EXCEPT ![i].connections = @ + 1,
                                        ![t].connections = @ + 1],
              edges |-> Append(g.edges, LinkEdge(g.nodes[i].id, g.nodes[t].id))]
        ELSE g

RECURSIVE LinkPass(_, _, _, _)
LinkPass(g, ns, i, j) ==
    IF i > Len(ns) THEN g
    ELSE IF j > Len(ns[i].links) THEN LinkPass(g, ns, i + 1, 1)
    ELSE LinkPass(LinkStep(g, i, ns[i].links[j]), ns, i, j + 1)

\* nodeA.tags.filter(tag => nodeB.tags.includes(tag))
CommonTags(a, b) == SelectSeq(a.tags, LAMBDA tag : tag \in Range(b.tags))

\* TagStep without the look for an existing edge
TagStepUnchecked(es, a, b) ==
    IF a.id # b.id /\ Len(CommonTags(a, b)) > 0
    THEN Append(es, TagEdge(a.id, b.id, CommonTags(a, b)))
    ELSE es

\* TagStep taking each pair once, from the left node to the right one
TagStepLeftToRight(es, a, b) ==
    IF /\ a.x < b.x
       /\ Len(CommonTags(a, b)) > 0
       /\ ~ExistingEdge(es, a.id, b.id)
    THEN Append(es, TagEdge(a.id, b.id, CommonTags(a, b)))
    ELSE es

\* the body of the inner loop of the tag pass
TagStep(es, a, b) ==
    IF /\ a.id # b.id
       /\ Len(CommonTags(a, b)) > 0
       /\ ~ExistingEdge(es, a.id, b.id)
    THEN Append(es, TagEdge(a.id, b.id, CommonTags(a, b)))
    ELSE es

RECURSIVE TagPass(_, _, _, _)
TagPass(es, ns, i, j) ==
    IF i > Len(ns) THEN es
    ELSE IF j > Len(ns) THEN TagPass(es, ns, i + 1, 1)
    ELSE TagPass(TagStep(es, ns[i], ns[j]), ns, i, j + 1)

\* NodeSize without the connections
NodeSizeBase(node) == NodeRadius * Unit

NodeSize(node) ==
    Max2(NodeRadius * Unit, NodeRadius * Unit + node.connections * 2 * Unit)

AdjustSizes(ns) == [k \in 1..Len(ns) |-> [ns[k] EXCEPT !.radius = NodeSize(ns[k])]]

RECURSIVE BoundsFrom(_, _, _)
BoundsFrom(ns, k, b) ==
    IF k > Len(ns) THEN b
    ELSE BoundsFrom(ns, k + 1,
                    [minX |-> Min2(b.minX, ns[k].x), maxX |-> Max2(b.maxX, ns[k].x),
                     minY |-> Min2(b.minY, ns[k].y), maxY |-> Max2(b.maxY, ns[k].y)])

GetGraphBounds(ns) ==
    IF Len(ns) = 0 THEN [minX |-> 0, maxX |-> 0, minY |-> 0, maxY |-> 0]
    ELSE BoundsFrom(ns, 1, [minX |-> ns[1].x, maxX |-> ns[1].x,
                            minY |-> ns[1].y, maxY |-> ns[1].y])

\* CenterGraph that puts the corner of the bounding box, not its centre, at the centre
CenterGraphOnCorner(ns, cv) ==
    IF Len(ns) = 0 THEN ns
    ELSE LET bounds  == GetGraphBounds(ns)
             offsetX == Quot(cv.w, 2) - bounds.minX
             offsetY == Quot(cv.h, 2) - bounds.minY
         IN  [k \in 1..Len(ns) |->
                 [ns[k] EXCEPT !.x = @ + offsetX, !.y = @ + offsetY]]

\* CenterGraph that puts the first node, not the bounding box, at the centre
CenterGraphOnFirst(ns, cv) ==
    IF Len(ns) = 0 THEN ns
    ELSE LET offsetX == Quot(cv.w, 2) - ns[1].x
             offsetY == Quot(cv.h, 2) - ns[1].y
         IN  [k \in 1..Len(ns) |->
                 [ns[k] EXCEPT !.x = @ + offsetX, !.y = @ + offsetY]]

CenterGraph(ns, cv) ==
    IF Len(ns) = 0 THEN ns
    ELSE LET bounds  == GetGraphBounds(ns)
             offsetX == Quot(cv.w, 2) - Quot(bounds.minX + bounds.maxX, 2)
             offsetY == Quot(cv.h, 2) - Quot(bounds.minY + bounds.maxY, 2)
         IN  [k \in 1..Len(ns) |->
                 [ns[k] EXCEPT !.x = @ + offsetX, !.y = @ + offsetY]]

\* GenerateGraph with the tag pass before the link pass
GenerateGraphTagsFirst(ns, layout, cv) ==
    IF Len(ns) = 0 THEN [nodes |-> <<>>, edges |-> <<>>]
    ELSE LET fresh  == [k \in 1..Len(ns) |-> NewNode(ns[k], layout[k])]
             tagged == TagPass(<<>>, fresh, 1, 1)
             linked == LinkPass([nodes |-> fresh, edges |-> tagged], ns, 1, 1)
         IN  [nodes |-> CenterGraph(AdjustSizes(linked.nodes), cv),
              edges |-> linked.edges]

\* the graph of the note list ns with the random positions layout, as [nodes, edges]
GenerateGraph(ns, layout, cv) ==
    IF Len(ns) = 0 THEN [nodes |-> <<>>, edges |-> <<>>]
    ELSE LET fresh  == [k \in 1..Len(ns) |-> NewNode(ns[k], layout[k])]
             linked == LinkPass([nodes |-> fresh, edges |-> <<>>], ns, 1, 1)
             tagged == TagPass(linked.edges, linked.nodes, 1, 1)
         IN  [nodes |-> CenterGraph(AdjustSizes(linked.nodes), cv), edges |-> tagged]

(***************************************************************************)
(* Math.random(): the positions a generation may draw.  Layout k gives     *)
(* node i the point i + k of a short cycle of points of [0, w) x [0, h);   *)
(* the last layout puts every node on one point.                           *)
(***************************************************************************)
RandomPoints(cv) ==
    << <<0, 0>>,
       <<cv.w - 1, cv.h - 1>>,
       <<cv.w \div 4, cv.h \div 2>>,
       <<cv.w \div 4 + 10 * Unit, cv.h \div 2>> >>

Layouts(cv) ==
    LET pts == RandomPoints(cv)
    IN  {[i \in 1..(MaxNotes + 1) |-> pts[((i + k) % Len(pts)) + 1]] : k \in 0..2}
        \cup {[i \in 1..(MaxNotes + 1) |-> pts[3]]}

(***************************************************************************)
(* Object references.  A node object is named by the generation that made  *)
(* it and its index in that generation's list; the handler's hoveredNode,  *)
(* selectedNode and dragNode are such names, or NoRef for null/undefined.  *)
(* An object of an earlier generation lives on in detached while the       *)
(* handler holds it.                                                       *)
(***************************************************************************)
NoRef == [gen |-> 0, idx |-> 0]

NoPos == <<>>

Ref(k) == IF k = 0 THEN NoRef ELSE [gen |-> gen, idx |-> k]

IsLive(r) == r # NoRef /\ r.gen = gen

Deref(r) == IF r.gen = gen THEN nodes[r.idx] ELSE detached[r]

HeldRefs == {dragNode, hoveredNode, selectedNode} \ {NoRef}

\* a generation name no held object carries
FreshGen == CHOOSE g \in 1..4 : /\ \A r \in HeldRefs : r.gen # g
                                /\ \A h \in 1..(g - 1) : \E r \in HeldRefs : r.gen = h

\* the objects of earlier generations that the references refs still hold
Collect(d, refs) == [r \in {q \in refs : q # NoRef /\ q.gen # gen} |-> d[r]]

(***************************************************************************)
(* GraphRenderer.getNodeAt and zoomToFit.                                  *)
(***************************************************************************)
\* (screen - pan) / zoom
ToGraph(screen, pan, zoom) == Quot((screen - pan) * Milli, zoom)

\* distance <= node.radius, for the offset (dx, dy) from the node's centre
Within(dx, dy, radius) ==
    /\ Abs(dx) <= radius
    /\ Abs(dy) <= radius
    /\ dx * dx + dy * dy <= radius * radius

\* GetNodeAt returning the last node that contains the point, the one drawn on top
GetNodeAtLast(ns, cam, x, y) ==
    LET tx   == ToGraph(x, cam.x, cam.zoom)
        ty   == ToGraph(y, cam.y, cam.zoom)
        hits == {k \in 1..Len(ns) : Within(tx - ns[k].x, ty - ns[k].y, ns[k].radius)}
    IN  IF hits = {} THEN 0 ELSE CHOOSE k \in hits : \A m \in hits : k >= m

\* this.nodes.find(...): the index of the first node that contains the point, or 0
GetNodeAt(ns, cam, x, y) ==
    LET tx   == ToGraph(x, cam.x, cam.zoom)
        ty   == ToGraph(y, cam.y, cam.zoom)
        hits == {k \in 1..Len(ns) : Within(tx - ns[k].x, ty - ns[k].y, ns[k].radius)}
    IN  IF hits = {} THEN 0 ELSE CHOOSE k \in hits : \A m \in hits : k <= m

FitPadding == 50

\* Math.min(scaleX, scaleY) without the limit 1
FitScaleUncapped(bounds, cv) ==
    LET graphWidth  == bounds.maxX - bounds.minX + FitPadding * Unit * 2
        graphHeight == bounds.maxY - bounds.minY + FitPadding * Unit * 2
    IN  Min2(Quot(cv.w * Milli, graphWidth), Quot(cv.h * Milli, graphHeight))

\* Math.min(scaleX, scaleY, 1)
FitScale(bounds, cv) ==
    LET graphWidth  == bounds.maxX - bounds.minX + FitPadding * Unit * 2
        graphHeight == bounds.maxY - bounds.minY + FitPadding * Unit * 2
    IN  Min2(Min2(Quot(cv.w * Milli, graphWidth), Quot(cv.h * Milli, graphHeight)),
             Milli)

\* the camera zoomToFit sets for a non-empty node list
FitCamera(ns, cv) ==
    LET bounds == GetGraphBounds(ns)
        scale  == FitScale(bounds, cv)
    IN  [zoom |-> scale,
         x |-> Quot(cv.w - Quot((bounds.maxX + bounds.minX) * scale, Milli), 2),
         y |-> Quot(cv.h - Quot((bounds.maxY + bounds.minY) * scale, Milli), 2)]

(***************************************************************************)
(* GraphPhysics.updatePhysics.                                             *)
(***************************************************************************)
\* Math.sqrt(dx * dx + dy * dy); coarser for far points, as a float is
Hypot(dx, dy) ==
    IF Abs(dx) < 30000 /\ Abs(dy) < 30000
    THEN Sqrt(dx * dx + dy * dy)
    ELSE 64 * Sqrt(Quot(dx, 64) * Quot(dx, 64) + Quot(dy, 64) * Quot(dy, 64))

\* (d / distance) * force
Along(d, distance, force) ==
    LET ratio == Quot(d * Milli, distance)
    IN  IF Abs(force) < Milli * Milli THEN Quot(ratio * force, Milli)
                                      ELSE ratio * Quot(force, Milli)

\* repulsion / (distance * distance), for distance < maxDistance
RepulsionForce(distance) ==
    Quot(Repulsion * Unit * Unit * Unit, distance * distance)

\* RepelStep with the force turned round: it pulls the two nodes together
RepelStepAttract(ns, i, j) ==
    LET dx       == ns[j].x - ns[i].x
        dy       == ns[j].y - ns[i].y
        distance == Hypot(dx, dy)
        fx       == Along(dx, distance, RepulsionForce(distance))
        fy       == Along(dy, distance, RepulsionForce(distance))
    IN  IF ns[i].id = ns[j].id \/ distance = 0 \/ ~(distance < MaxDistance * Unit)
        THEN ns
        ELSE [k \in 1..Len(ns) |->
                 [ns[k] EXCEPT
                     !.vx = @ + (IF k = i THEN fx ELSE 0) - (IF k = j THEN fx ELSE 0),
                     !.vy = @ + (IF k = i THEN fy ELSE 0) - (IF k = j THEN fy ELSE 0)]]

\* the body of the inner loop of the repulsion pass, for nodeA = ns[i], nodeB = ns[j]
RepelStep(ns, i, j) ==
    LET dx       == ns[j].x - ns[i].x
        dy       == ns[j].y - ns[i].y
        distance == Hypot(dx, dy)
        fx       == Along(dx, distance, RepulsionForce(distance))
        fy       == Along(dy, distance, RepulsionForce(distance))
    IN  IF ns[i].id = ns[j].id \/ distance = 0 \/ ~(distance < MaxDistance * Unit)
        THEN ns
        ELSE [k \in 1..Len(ns) |->
                 [ns[k] EXCEPT
                     !.vx = @ - (IF k = i THEN fx ELSE 0) + (IF k = j THEN fx ELSE 0),
                     !.vy = @ - (IF k = i THEN fy ELSE 0) + (IF k = j THEN fy ELSE 0)]]

RECURSIVE RepelPass(_, _, _)
RepelPass(ns, i, j) ==
    IF i > Len(ns) THEN ns
    ELSE IF j > Len(ns) THEN RepelPass(ns, i + 1, 1)
    ELSE RepelPass(RepelStep(ns, i, j), i, j + 1)

\* nodes.find(n => n.id === id): the index of the first node with that id, or 0
FindId(ns, id) ==
    LET hits == {k \in 1..Len(ns) : ns[k].id = id}
    IN  IF hits = {} THEN 0 ELSE CHOOSE k \in hits : \A m \in hits : k <= m

TargetDistance(edge) ==
    IF edge.type = "tag" THEN Quot(MaxDistance * Unit * 15, 10) ELSE MaxDistance * Unit

\* attraction * (distance - targetDistance) * edge.strength
SpringForce(edge, distance) ==
    Quot(AttractionPercent * (distance - TargetDistance(edge)) * edge.strength, 100 * 10)

\* SpringStep with the force turned round: it drives the two nodes off the target
SpringStepAway(ns, edge) ==
    LET s        == FindId(ns, edge.source)
        t        == FindId(ns, edge.target)
        dx       == ns[t].x - ns[s].x
        dy       == ns[t].y - ns[s].y
        distance == Hypot(dx, dy)
        fx       == Along(dx, distance, SpringForce(edge, distance))
        fy       == Along(dy, distance, SpringForce(edge, distance))
    IN  IF s = 0 \/ t = 0 THEN ns
        ELSE IF distance = 0 THEN ns
        ELSE [k \in 1..Len(ns) |->
                 [ns[k] EXCEPT
                     !.vx = @ - (IF k = s THEN fx ELSE 0) + (IF k = t THEN fx ELSE 0),
                     !.vy = @ - (IF k = s THEN fy ELSE 0) + (IF k = t THEN fy ELSE 0)]]

\* the body of the loop of the spring pass
SpringStep(ns, edge) ==
    LET s        == FindId(ns, edge.source)
        t        == FindId(ns, edge.target)
        dx       == ns[t].x - ns[s].x
        dy       == ns[t].y - ns[s].y
        distance == Hypot(dx, dy)
        fx       == Along(dx, distance, SpringForce(edge, distance))
        fy       == Along(dy, distance, SpringForce(edge, distance))
    IN  IF s = 0 \/ t = 0 THEN ns
        ELSE IF distance = 0 THEN ns
        ELSE [k \in 1..Len(ns) |->
                 [ns[k] EXCEPT
                     !.vx = @ + (IF k = s THEN fx ELSE 0) - (IF k = t THEN fx ELSE 0),
                     !.vy = @ + (IF k = s THEN fy ELSE 0) - (IF k = t THEN fy ELSE 0)]]

RECURSIVE SpringPass(_, _, _)
SpringPass(ns, es, k) ==
    IF k > Len(es) THEN ns ELSE SpringPass(SpringStep(ns, es[k]), es, k + 1)

\* v *= damping
Damp(v) ==
    IF Abs(v) < 20000000 THEN Quot(v * DampingPercent, 100)
                         ELSE Quot(v, 100) * DampingPercent

\* MoveAxis with walls that throw the node back
MoveAxisBounce(p, v, margin, size) ==
    LET v1 == Damp(v)
        p1 == p + v1
        lo == IF p1 < margin THEN [p |-> margin, v |-> -v1] ELSE [p |-> p1, v |-> v1]
    IN  IF lo.p > size - margin THEN [p |-> size - margin, v |-> -v1] ELSE lo

\* one axis of the move: [p, v] after damping, the step and the two clamps
MoveAxis(p, v, margin, size) ==
    LET v1 == Damp(v)
        p1 == p + v1
        lo == IF p1 < margin THEN [p |-> margin, v |-> 0] ELSE [p |-> p1, v |-> v1]
    IN  IF lo.p > size - margin THEN [p |-> size - margin, v |-> 0] ELSE lo

\* MoveNode moving the dragged node like any other
MoveNodeAll(node, isDrag, cv) ==
    LET margin == node.radius + 10 * Unit
        mx     == MoveAxis(node.x, node.vx, margin, cv.w)
        my     == MoveAxis(node.y, node.vy, margin, cv.h)
    IN  [node EXCEPT !.x = mx.p, !.vx = mx.v, !.y = my.p, !.vy = my.v]

\* the body of the loop of the last pass; isDrag is node === dragNode
MoveNode(node, isDrag, cv) ==
    LET margin == node.radius + 10 * Unit
        mx     == MoveAxis(node.x, node.vx, margin, cv.w)
        my     == MoveAxis(node.y, node.vy, margin, cv.h)
    IN  IF isDrag THEN node
        ELSE [node EXCEPT !.x = mx.p, !.vx = mx.v, !.y = my.p, !.vy = my.v]

\* the node list after one step; drag is the index of dragNode in ns, 0 if it is not in it
UpdatePhysics(ns, es, cv, drag) ==
    LET forced == SpringPass(RepelPass(ns, 1, 1), es, 1)
    IN  [k \in 1..Len(ns) |-> MoveNode(forced[k], k = drag, cv)]

(***************************************************************************)
(* The environment: the container's size, the note store's content when    *)
(* the graph view is built, and where the pointer can be.                  *)
(***************************************************************************)
InitialCanvas == [w |-> 300 * Unit, h |-> 200 * Unit]

CanvasSizes == {InitialCanvas, [w |-> 30 * Unit, h |-> 20 * Unit]}

Injective(seq) == \A i, j \in 1..Len(seq) : i # j => seq[i].id # seq[j].id

\* every note list of at most MaxNotes notes of the universe
Collections ==
    UNION {{seq \in [1..k -> NoteUniverse] : Injective(seq)} : k \in 0..MaxNotes}

NoteWithId(id) == CHOOSE n \in NoteUniverse : n.id = id

\* the note lists the interaction runs start from
Scenarios ==
    { <<NoteWithId(1), NoteWithId(2), NoteWithId(3)>>,
      <<NoteWithId(1)>>,
      <<>> }

\* where node k is drawn: pan + zoom * position
ScreenX(k) == camera.x + Quot(nodes[k].x * camera.zoom, Milli)

ScreenY(k) == camera.y + Quot(nodes[k].y * camera.zoom, Milli)

\* pointer positions: on the first two nodes, and a fixed point of the canvas; a second
\* fixed point where there is no node
PointerPositions ==
    {<<ScreenX(k), ScreenY(k)>> : k \in 1..Min2(2, Len(nodes))}
    \cup {<<canvas.w \div 2, canvas.h \div 10>>}
    \cup (IF Len(nodes) = 0 THEN {<<canvas.w \div 4, canvas.h \div 2>>} ELSE {})

(***************************************************************************)
(* The host: event listeners, animation frame requests, the drawing.       *)
(***************************************************************************)
\* the listeners of GraphEventHandler.bindEvents and GraphRenderer.bindEvents; each
\* handler.bind(this) is a function object of its own, named by a number
CanvasEvents ==
    <<"mousedown", "mousemove", "mouseup", "wheel", "click", "dblclick",
      "touchstart", "touchmove", "touchend">>

BoundListeners ==
    {<<"canvas", CanvasEvents[k], k>> : k \in 1..Len(CanvasEvents)}
    \cup {<<"window", "resize", Len(CanvasEvents) + 1>>}

\* a function object made now: equal to none made before
FreshFunction(ls) ==
    1 + (CHOOSE m \in {l[3] : l \in ls} \cup {0} : \A l \in ls : l[3] <= m)

\* target.removeEventListener(type, fn)
RemoveEventListener(ls, target, type, fn) == ls \ {<<target, type, fn>>}

\* whether an event of this type at this target invokes a handler of the graph
Attached(target, type) == \E l \in listeners : l[1] = target /\ l[2] = type

\* requestAnimationFrame: a handle other than the last
RequestAnimationFrame(id) == IF id = 1 THEN 2 ELSE 1

\* a render that draws the graph layers whatever the node list holds
RenderGraph(ns) == "graph"

\* render: the empty-state message alone, or the graph and its overlay
Render(ns) == IF Len(ns) = 0 THEN "emptyState" ELSE "graph"

(***************************************************************************)
(* Initial states: new GraphRenderer(container, noteManager), whose        *)
(* constructor creates the event handler, registers the listeners, builds  *)
(* the graph and runs the first frame of the animation.                    *)
(***************************************************************************)
\* this.notes.set(note.id, note): replaces in place, or appends
MapSet(ns, note) ==
    IF \E k \in 1..Len(ns) : ns[k].id = note.id
    THEN [k \in 1..Len(ns) |-> IF ns[k].id = note.id THEN note ELSE ns[k]]
    ELSE Append(ns, note)

\* this.notes.delete(id)
MapDelete(ns, id) == SelectSeq(ns, LAMBDA n : n.id # id)

\* this.notes.get(id) finds a note
Has(ns, id) == \E k \in 1..Len(ns) : ns[k].id = id

\* localStorage without the item notemesh_notes
NoStorage == [present |-> FALSE, data |-> <<>>]

\* saveNotes: the item becomes the serialized notes
SaveNotes(ns) == [present |-> TRUE, data |-> [k \in 1..Len(ns) |-> Serialize(ns[k])]]

\* history: no call of the NoteManager since its construction
Constructor ==
    [name |-> "constructor", id |-> 0, arg |-> <<>>, returned |-> "undefined",
     emitted |-> <<>>]

NoGesture == [x |-> 0, y |-> 0, panX |-> 0, panY |-> 0, pressed |-> FALSE,
              onNode |-> FALSE, dragged |-> FALSE]

\* history: a mousedown opens a gesture, recording the pointer, the pan and whether a
\* node is under the pointer; the
\* mousemoves that directly follow belong to it, and one that finds a drag target marks it
\* dragged; the mouseup that follows closes it, keeping the mark; any other operation
\* ends it
GestureAfter(name, x, y) ==
    IF name = "mousedown"
    THEN [x |-> x, y |-> y, panX |-> camera.x, panY |-> camera.y, pressed |-> TRUE,
          onNode |-> GetNodeAt(nodes, camera, x, y) # 0, dragged |-> FALSE]
    ELSE IF name = "mousemove" /\ gesture.pressed
    THEN [gesture EXCEPT !.dragged = @ \/ (isDragging /\ dragNode # NoRef)]
    ELSE IF name = "mouseup" /\ gesture.pressed
    THEN [NoGesture EXCEPT !.dragged = gesture.dragged]
    ELSE NoGesture

Constructed(ns) ==
    /\ notes = ns
    /\ genNotes = ns
    /\ canvas = InitialCanvas
    /\ \E layout \in Layouts(InitialCanvas) :
           LET g == GenerateGraph(ns, layout, InitialCanvas)
           IN  /\ nodes = UpdatePhysics(g.nodes, g.edges, InitialCanvas, 0)
               /\ edges = g.edges
    /\ drawn = Render(nodes)
    /\ animation = [frame |-> RequestAnimationFrame(0), running |-> TRUE]
    /\ pendingFrame = animation.frame
    /\ listeners = BoundListeners
    /\ destroyed = FALSE
    /\ gen = 1
    /\ detached = <<>>
    /\ camera = [x |-> 0, y |-> 0, zoom |-> Milli]
    /\ isDragging = FALSE
    /\ isPanning = FALSE
    /\ dragNode = NoRef
    /\ lastPanPos = NoPos
    /\ hoveredNode = NoRef
    /\ selectedNode = NoRef
    /\ cursor = "grab"
    /\ events = 0
    /\ lastOp = [name |-> "init", x |-> 0, y |-> 0, deltaY |-> 0, touches |-> 0,
                 again |-> FALSE]
    /\ gesture = NoGesture
    /\ currentView = "graph"
    /\ replaced = <<>>
    /\ storage = (IF ns = <<>> THEN NoStorage ELSE SaveNotes(ns))
    /\ lastCall = Constructor

Init == \E ns \in Scenarios : Constructed(ns)

InitGen == \E ns \in Collections : Constructed(ns)

\* history: the operation of this step, with the pointer, the deltaY and the number of
\* touches of its event; again marks a regeneration that directly follows a generation
OpOf(name, x, y, deltaY, touches) ==
    /\ lastOp' = [name |-> name, x |-> x, y |-> y, deltaY |-> deltaY,
                  touches |-> touches,
                  again |-> name = "refresh" /\ lastOp.name \in {"init", "refresh"}]
    /\ gesture' = GestureAfter(name, x, y)

OpDelta(name, x, y, deltaY) == OpOf(name, x, y, deltaY, 0)

OpTouch(name, x, y, touches) == OpOf(name, x, y, 0, touches)

Op(name, x, y) == OpDelta(name, x, y, 0)

(***************************************************************************)
(* NoteManager.                                                            *)
(***************************************************************************)
\* history: the call, its id argument, its other argument, its return value and the
\* events it emitted, in order
Called(name, id, arg, returned, emitted) ==
    lastCall' = [name |-> name, id |-> id, arg |-> arg, returned |-> returned,
                 emitted |-> emitted]

\* addNote: set, saveNotes, emit noteAdded, emit notesChanged
AddNoteCall(note) ==
    /\ notes' = MapSet(notes, note)
    /\ storage' = SaveNotes(notes')
    /\ Called("addNote", note.id, note, "undefined", <<"noteAdded", "notesChanged">>)

\* Object.assign(note, updates), and the links of a content that is not empty;
\* updates = [has, title, content], has the set of the keys it carries
Updated(note, updates) ==
    LET assigned == [note EXCEPT
                        !.title = IF "title" \in updates.has THEN updates.title ELSE @,
                        !.content = IF "content" \in updates.has THEN updates.content
                                    ELSE @]
    IN  IF "content" \in updates.has /\ updates.content # <<>>
        THEN [assigned EXCEPT !.links = ExtractLinks(updates.content)]
        ELSE assigned

\* updateNote that creates the note it does not find
UpdateNoteUpserting(id, updates) ==
    /\ notes' = IF Has(notes, id)
                THEN [k \in 1..Len(notes) |->
                         IF notes[k].id = id THEN Updated(notes[k], updates) ELSE notes[k]]
                ELSE Append(notes, Updated(NewNote(id, "", <<>>, <<>>), updates))
    /\ storage' = SaveNotes(notes')
    /\ Called("updateNote", id, updates, "true", <<"noteUpdated", "notesChanged">>)

UpdateNoteCall(id, updates) ==
    IF Has(notes, id)
    THEN /\ notes' = [k \in 1..Len(notes) |->
                         IF notes[k].id = id THEN Updated(notes[k], updates) ELSE notes[k]]
         /\ storage' = SaveNotes(notes')
         /\ Called("updateNote", id, updates, "true", <<"noteUpdated", "notesChanged">>)
    ELSE /\ UNCHANGED <<notes, storage>>
         /\ Called("updateNote", id, updates, "false", <<>>)

DeleteNoteCall(id) ==
    IF Has(notes, id)
    THEN /\ notes' = MapDelete(notes, id)
         /\ storage' = SaveNotes(notes')
         /\ Called("deleteNote", id, <<>>, "true", <<"noteDeleted", "notesChanged">>)
    ELSE /\ UNCHANGED <<notes, storage>>
         /\ Called("deleteNote", id, <<>>, "false", <<>>)

\* the forEach over the entries of imported or stored data: deserialize and set each
\* entry in turn; an entry that is not usable throws, and the loop ends there with
\* the entries before it set
RECURSIVE SetEach(_, _, _)
SetEach(ns, entries, k) ==
    IF k > Len(entries) THEN [notes |-> ns, thrown |-> FALSE]
    ELSE IF ~entries[k].usable THEN [notes |-> ns, thrown |-> TRUE]
    ELSE SetEach(MapSet(ns, Deserialize(entries[k])), entries, k + 1)

\* importNotes of a document json = [kind, notes]: malformed text, an object with no
\* notes array, or an object with the notes array json.notes
ImportNotesCall(json) ==
    LET done == SetEach(notes, json.notes, 1)
    IN  IF json.kind # "notes"
        THEN /\ UNCHANGED <<notes, storage>>
             /\ Called("importNotes", 0, json, "false", <<>>)
        ELSE IF done.thrown
        THEN /\ notes' = done.notes
             /\ UNCHANGED storage
             /\ Called("importNotes", 0, json, "false", <<>>)
        ELSE /\ notes' = done.notes
             /\ storage' = SaveNotes(notes')
             /\ Called("importNotes", 0, json, "true", <<"notesChanged">>)

\* new NoteManager(): an empty Map, then loadNotes
LoadNotesCall ==
    /\ notes' = IF storage.present THEN SetEach(<<>>, storage.data, 1).notes ELSE <<>>
    /\ lastCall' = Constructor
    /\ UNCHANGED storage

AddNote(note) ==
    /\ Len(MapSet(notes, note)) <= MaxNotes
    /\ AddNoteCall(note)
    /\ Op("addNote", note.id, 0)
    /\ UNCHANGED <<canvas, nodes, edges, gen, detached, camera, handlerVars, genNotes,
                   lifeVars>>

UpdateNote(id, updates) ==
    /\ UpdateNoteCall(id, updates)
    /\ Op("updateNote", id, 0)
    /\ UNCHANGED <<canvas, nodes, edges, gen, detached, camera, handlerVars, genNotes,
                   lifeVars>>

DeleteNote(id) ==
    /\ DeleteNoteCall(id)
    /\ Op("deleteNote", id, 0)
    /\ UNCHANGED <<canvas, nodes, edges, gen, detached, camera, handlerVars, genNotes,
                   lifeVars>>

ImportNotes(json) ==
    /\ Len(SetEach(notes, json.notes, 1).notes) <= MaxNotes
    /\ ImportNotesCall(json)
    /\ Op("importNotes", 0, 0)
    /\ UNCHANGED <<canvas, nodes, edges, gen, detached, camera, handlerVars, genNotes,
                   lifeVars>>

\* the page is loaded again: a new NoteManager reads the storage
LoadNotes ==
    /\ LoadNotesCall
    /\ Op("loadNotes", 0, 0)
    /\ UNCHANGED <<canvas, nodes, edges, gen, detached, camera, handlerVars, genNotes,
                   lifeVars>>

(***************************************************************************)
(* GraphRenderer: refresh, zoomToFit, resizeCanvas, one animation frame.   *)
(***************************************************************************)
\* a refresh that adds the new nodes and edges to the lists it finds
RefreshAppending ==
    /\ \E layout \in Layouts(canvas) :
           LET g == GenerateGraph(notes, layout, canvas)
           IN  nodes' = nodes \o g.nodes /\ edges' = edges \o g.edges
    /\ gen' = FreshGen
    /\ detached' = [r \in HeldRefs |-> Deref(r)]
    /\ genNotes' = notes
    /\ Op("refresh", 0, 0)
    /\ UNCHANGED <<notes, canvas, camera, handlerVars, lifeVars>>

Refresh ==
    /\ \E layout \in Layouts(canvas) :
           LET g == GenerateGraph(notes, layout, canvas)
           IN  nodes' = g.nodes /\ edges' = g.edges
    /\ gen' = FreshGen
    /\ detached' = [r \in HeldRefs |-> Deref(r)]
    /\ genNotes' = notes
    /\ Op("refresh", 0, 0)
    /\ UNCHANGED <<notes, canvas, camera, handlerVars, lifeVars>>

ZoomToFit ==
    /\ camera' = IF Len(nodes) = 0 THEN camera ELSE FitCamera(nodes, canvas)
    /\ Op("zoomToFit", 0, 0)
    /\ UNCHANGED <<notes, canvas, nodes, edges, gen, detached, handlerVars, genNotes,
                   lifeVars>>

\* a resize that also moves the camera to the middle of the new canvas
ResizeRecentres(size) ==
    /\ size # canvas
    /\ canvas' = size
    /\ camera' = [camera EXCEPT !.x = Quot(size.w, 2), !.y = Quot(size.h, 2)]
    /\ Op("resize", size.w, size.h)
    /\ UNCHANGED <<notes, nodes, edges, gen, detached, handlerVars, genNotes, lifeVars>>

Resize(size) ==
    /\ size # canvas
    /\ canvas' = size
    /\ Op("resize", size.w, size.h)
    /\ UNCHANGED <<notes, nodes, edges, gen, detached, camera, handlerVars, genNotes,
                   lifeVars>>

\* animate without the request for the next frame
AnimateOnce ==
    IF animation.running
    THEN /\ nodes' = UpdatePhysics(nodes, edges, canvas,
                                   IF IsLive(dragNode) THEN dragNode.idx ELSE 0)
         /\ drawn' = Render(nodes')
         /\ pendingFrame' = 0
         /\ UNCHANGED animation
    ELSE /\ pendingFrame' = 0
         /\ UNCHANGED <<nodes, drawn, animation>>

\* the animate closure of startAnimation: return if not running; updatePhysics,
\* render, request the next frame
Animate ==
    IF animation.running
    THEN /\ nodes' = UpdatePhysics(nodes, edges, canvas,
                                   IF IsLive(dragNode) THEN dragNode.idx ELSE 0)
         /\ drawn' = Render(nodes')
         /\ animation' = [animation EXCEPT !.frame = RequestAnimationFrame(@)]
         /\ pendingFrame' = animation'.frame
    ELSE /\ pendingFrame' = 0
         /\ UNCHANGED <<nodes, drawn, animation>>

\* the host runs the requested frame callback
Frame ==
    /\ pendingFrame # 0
    /\ Animate
    /\ Op("frame", 0, 0)
    /\ UNCHANGED <<notes, canvas, edges, gen, detached, camera, handlerVars, genNotes,
                   listeners, destroyed>>

\* stopAnimation that leaves the running flag as it is
StoppedRunning(anim) == anim

\* this.animation.running = false
Stopped(anim) == [anim EXCEPT !.running = FALSE]

\* cancelAnimationFrame(this.animation.frame), if there is a frame
Cancelled(anim, pending) ==
    IF anim.frame # 0 /\ pending = anim.frame THEN 0 ELSE pending

StopAnimation ==
    /\ animation' = Stopped(animation)
    /\ pendingFrame' = Cancelled(animation, pendingFrame)

StopAnimationCall ==
    /\ StopAnimation
    /\ Op("stopAnimation", 0, 0)
    /\ UNCHANGED <<notes, canvas, nodes, edges, gen, detached, camera, handlerVars,
                   genNotes, listeners, drawn, destroyed>>

\* destroy: stopAnimation, then removeEventListener('resize', resizeCanvas.bind(this))
Destroy ==
    /\ StopAnimation
    /\ listeners' = RemoveEventListener(listeners, "window", "resize",
                                        FreshFunction(listeners))
    /\ destroyed' = TRUE
    /\ Op("destroy", 0, 0)
    /\ UNCHANGED <<notes, canvas, nodes, edges, gen, detached, camera, handlerVars,
                   genNotes, drawn>>

(***************************************************************************)
(* GraphEventHandler.                                                      *)
(***************************************************************************)
\* the node object obj after onMouseMove has dragged it to the pointer (x, y)
Dragged(obj, x, y) ==
    [obj EXCEPT !.x = ToGraph(x, camera.x, camera.zoom),
                !.y = ToGraph(y, camera.y, camera.zoom),
                !.vx = 0, !.vy = 0]

\* a cursor that shows a pan whatever was pressed
DownCursorMove(clickedNode) == "move"

\* canvas.style.cursor after a press
DownCursor(clickedNode) == IF clickedNode # 0 THEN "grabbing" ELSE "move"

OnMouseDown(x, y) ==
    LET clickedNode == GetNodeAt(nodes, camera, x, y)
    IN  /\ IF clickedNode # 0
           THEN /\ isDragging' = TRUE
                /\ dragNode' = Ref(clickedNode)
                /\ UNCHANGED <<isPanning, lastPanPos>>
           ELSE /\ isPanning' = TRUE
                /\ lastPanPos' = <<x, y>>
                /\ UNCHANGED <<isDragging, dragNode>>
        /\ cursor' = DownCursor(clickedNode)
        /\ detached' = Collect(detached, {dragNode', hoveredNode, selectedNode})
        /\ UNCHANGED <<notes, canvas, nodes, edges, gen, camera, hoveredNode,
                       selectedNode, genNotes, lifeVars>>

OnMouseMove(x, y) ==
    /\ IF isDragging /\ dragNode # NoRef
       THEN /\ IF IsLive(dragNode)
               THEN /\ nodes' = [nodes EXCEPT
                                    ![dragNode.idx] = Dragged(nodes[dragNode.idx], x, y)]
                    /\ UNCHANGED detached
               ELSE /\ detached' = [detached EXCEPT
                                       ![dragNode] = Dragged(detached[dragNode], x, y)]
                    /\ UNCHANGED nodes
            /\ UNCHANGED <<camera, lastPanPos, hoveredNode, cursor>>
       ELSE IF isPanning /\ lastPanPos # NoPos
       THEN /\ camera' = [camera EXCEPT !.x = @ + x - lastPanPos[1],
                                        !.y = @ + y - lastPanPos[2]]
            /\ lastPanPos' = <<x, y>>
            /\ UNCHANGED <<nodes, detached, hoveredNode, cursor>>
       ELSE LET hovered == Ref(GetNodeAt(nodes, camera, x, y))
            IN  /\ hoveredNode' = hovered
                /\ cursor' = IF hovered = hoveredNode THEN cursor
                             ELSE IF hovered # NoRef THEN "pointer" ELSE "grab"
                /\ detached' = Collect(detached, {dragNode, hovered, selectedNode})
                /\ UNCHANGED <<nodes, camera, lastPanPos>>
    /\ UNCHANGED <<notes, canvas, edges, gen, isDragging, isPanning, dragNode,
                   selectedNode, genNotes, lifeVars>>

\* a cursor that forgets the hovered node
UpCursorGrab(hovered) == "grab"

\* canvas.style.cursor after a release
UpCursor(hovered) == IF hovered # NoRef THEN "pointer" ELSE "grab"

\* a release that also forgets the hovered node
OnMouseUpClearsHover ==
    /\ isDragging' = FALSE
    /\ isPanning' = FALSE
    /\ dragNode' = NoRef
    /\ lastPanPos' = NoPos
    /\ hoveredNode' = NoRef
    /\ cursor' = UpCursor(hoveredNode')
    /\ detached' = Collect(detached, {selectedNode})
    /\ UNCHANGED <<notes, canvas, nodes, edges, gen, camera, selectedNode, genNotes,
                   lifeVars>>

OnMouseUp ==
    /\ isDragging' = FALSE
    /\ isPanning' = FALSE
    /\ dragNode' = NoRef
    /\ lastPanPos' = NoPos
    /\ cursor' = UpCursor(hoveredNode)
    /\ detached' = Collect(detached, {hoveredNode, selectedNode})
    /\ UNCHANGED <<notes, canvas, nodes, edges, gen, camera, hoveredNode,
                   selectedNode, genNotes, lifeVars>>

\* a click that always selects what it hit
SelectOnly(selected, clickedNode) == clickedNode

\* this.selectedNode === clickedNode ? null : clickedNode, or null for no node
Toggle(selected, clickedNode) ==
    IF clickedNode # NoRef
    THEN (IF selected = clickedNode THEN NoRef ELSE clickedNode)
    ELSE NoRef

OnClick(x, y) ==
    LET clickedNode == Ref(GetNodeAt(nodes, camera, x, y))
    IN  /\ selectedNode' = Toggle(selectedNode, clickedNode)
        /\ detached' = Collect(detached, {dragNode, hoveredNode, selectedNode'})
        /\ UNCHANGED <<notes, canvas, nodes, edges, gen, camera, isDragging, isPanning,
                       dragNode, lastPanPos, hoveredNode, cursor, genNotes, lifeVars>>

\* NewZoom without the limits
NewZoomUnclamped(zoom, deltaY) ==
    LET scaleFactor == IF deltaY > 0 THEN 9 ELSE 11
    IN  Quot(zoom * scaleFactor, 10)

\* Math.max(0.1, Math.min(3, zoom * scaleFactor)); scaleFactor is 0.9 or 1.1
NewZoom(zoom, deltaY) ==
    LET scaleFactor == IF deltaY > 0 THEN 9 ELSE 11
    IN  Max2(ZoomMin, Min2(ZoomMax, Quot(zoom * scaleFactor, 10)))

\* a zoom that leaves the pan as it is
ZoomPanKept(pos, pan, newZoom, zoom) == pan

\* pos - (pos - pan) * (newZoom / zoom)
ZoomPan(pos, pan, newZoom, zoom) == pos - Quot((pos - pan) * newZoom, zoom)

OnWheel(x, y, deltaY) ==
    LET newZoom == NewZoom(camera.zoom, deltaY)
    IN  /\ camera' = [x |-> ZoomPan(x, camera.x, newZoom, camera.zoom),
                      y |-> ZoomPan(y, camera.y, newZoom, camera.zoom),
                      zoom |-> newZoom]
        /\ UNCHANGED <<notes, canvas, nodes, edges, gen, detached, handlerVars,
                       genNotes, lifeVars>>

\* an event that invokes no handler, or a handler that does nothing
Ignored == UNCHANGED <<notes, canvas, nodes, edges, gen, detached, camera, handlerVars,
                       genNotes, lifeVars>>

\* the touch handlers act on a single touch only
OnTouchStart(x, y, touches) == IF touches = 1 THEN OnMouseDown(x, y) ELSE Ignored

\* a touchmove that follows its first touch however many there are
OnTouchMoveFirstTouch(x, y, touches) == OnMouseMove(x, y)

OnTouchMove(x, y, touches) == IF touches = 1 THEN OnMouseMove(x, y) ELSE Ignored

OnTouchEnd == OnMouseUp

\* the events the host dispatches to the listeners
MouseDown(p) ==
    /\ Attached("canvas", "mousedown")
    /\ OnMouseDown(p[1], p[2])
    /\ Op("mousedown", p[1], p[2])

MouseMove(p) ==
    /\ Attached("canvas", "mousemove")
    /\ OnMouseMove(p[1], p[2])
    /\ Op("mousemove", p[1], p[2])

MouseUp == Attached("canvas", "mouseup") /\ OnMouseUp /\ Op("mouseup", 0, 0)

\* a mouseup told with the pointer position the event carries
MouseUpAt(p) == Attached("canvas", "mouseup") /\ OnMouseUp /\ Op("mouseup", p[1], p[2])

Click(p) == Attached("canvas", "click") /\ OnClick(p[1], p[2]) /\ Op("click", p[1], p[2])

Wheel(p, deltaY) ==
    /\ Attached("canvas", "wheel")
    /\ OnWheel(p[1], p[2], deltaY)
    /\ OpDelta("wheel", p[1], p[2], deltaY)

TouchStart(p, touches) ==
    /\ Attached("canvas", "touchstart")
    /\ OnTouchStart(p[1], p[2], touches)
    /\ OpTouch("touchstart", p[1], p[2], touches)

TouchMove(p, touches) ==
    /\ Attached("canvas", "touchmove")
    /\ OnTouchMove(p[1], p[2], touches)
    /\ OpTouch("touchmove", p[1], p[2], touches)

TouchEnd == Attached("canvas", "touchend") /\ OnTouchEnd /\ Op("touchend", 0, 0)

\* a resize of the window, the container taking the given size
WindowResize(size) == Attached("window", "resize") /\ Resize(size)

(***************************************************************************)
(* Specifications.                                                         *)
(*                                                                         *)
(* Spec: a graph view under input events, frames and API calls, at most    *)
(* MaxEvents of them.                                                      *)
(* SpecGen: the graph of any note list, regenerated after each change of   *)
(* the note store and any number of times in between.                      *)
(* SpecWheel: a run of wheel events alone, the pointer resting where the   *)
(* run began.                                                              *)
(* SpecLoop: the animation loop from construction on, under a host that    *)
(* runs every requested frame, stopped at any moment or never.             *)
(* SpecPointer: the mouse events of one pointer in the order a browser     *)
(* delivers them: moves, a press, moves, the release, and the click that   *)
(* follows a press and release on the canvas; at most MaxGesture events.   *)
(* SpecPasses: the frames of the graph of any note list, each frame in the *)
(* three passes of updatePhysics: repulsion, springs, move; at most        *)
(* MaxPasses passes.                                                       *)
(* SpecHit: the pointer moving over the canvas with no button down, and    *)
(* wheel events in between; at most MaxHover events.                       *)
(***************************************************************************)
Tick == events < MaxEvents /\ events' = events + 1 /\ UNCHANGED <<hostVars, storeVars>>

Next ==
    \/ \E p \in PointerPositions : Tick /\ MouseDown(p)
    \/ \E p \in PointerPositions : Tick /\ MouseMove(p)
    \/ Tick /\ MouseUp
    \/ \E p \in PointerPositions : Tick /\ Click(p)
    \/ \E p \in PointerPositions, deltaY \in {-1, 1} : Tick /\ Wheel(p, deltaY)
    \/ \E p \in PointerPositions, touches \in {1, 2} : Tick /\ TouchStart(p, touches)
    \/ \E p \in PointerPositions, touches \in {1, 2} : Tick /\ TouchMove(p, touches)
    \/ Tick /\ TouchEnd
    \/ Tick /\ Frame
    \/ Tick /\ Refresh
    \/ Tick /\ ZoomToFit
    \/ \E size \in CanvasSizes : Tick /\ WindowResize(size)
    \/ Tick /\ StopAnimationCall
    \/ Tick /\ Destroy

Spec == Init /\ [][Next]_vars

InSync == notes = genNotes

NextGen ==
    \/ \E note \in NoteUniverse : InSync /\ AddNote(note) /\ UNCHANGED <<events, hostVars>>
    \/ \E id \in {n.id : n \in Range(notes)} :
           InSync /\ DeleteNote(id) /\ UNCHANGED <<events, hostVars>>
    \/ Refresh /\ UNCHANGED <<events, hostVars, storeVars>>

SpecGen == InitGen /\ [][NextGen]_vars

\* the pointer of a wheel run: anywhere at first, then where it was
WheelPositions ==
    IF lastOp.name = "wheel" THEN {<<lastOp.x, lastOp.y>>} ELSE PointerPositions

NextWheel ==
    \E p \in WheelPositions, deltaY \in {-1, 0, 1} :
        /\ events < MaxWheel
        /\ events' = events + 1
        /\ Wheel(p, deltaY)
        /\ UNCHANGED <<hostVars, storeVars>>

SpecWheel == Init /\ [][NextWheel]_vars

\* the animation loop left to itself until it is stopped; the host runs every frame
\* callback it was asked for
LoopFrame == Frame /\ UNCHANGED <<events, hostVars, storeVars>>

NextLoop ==
    \/ LoopFrame
    \/ StopAnimationCall /\ UNCHANGED <<events, hostVars, storeVars>>
    \/ Destroy /\ UNCHANGED <<events, hostVars, storeVars>>

\* a step of the running loop, told by the frame request it replaces with the next:
\* of the steps of NextLoop only LoopFrame is one
FrameRuns ==
    /\ pendingFrame # 0
    /\ pendingFrame' \in {RequestAnimationFrame(pendingFrame)}

SpecLoop == Init /\ [][NextLoop]_vars /\ WF_pendingFrame(FrameRuns)

GestureTick == events < MaxGesture /\ events' = events + 1 /\ UNCHANGED <<hostVars, storeVars>>

\* the click event is due: dispatched right after the mouseup, at its position
ClickDue == lastOp.name = "mouseup"

PointerDown(p) == ~gesture.pressed /\ ~ClickDue /\ GestureTick /\ MouseDown(p)

PointerMove(p) == ~ClickDue /\ GestureTick /\ MouseMove(p)

PointerUp(p) == gesture.pressed /\ GestureTick /\ MouseUpAt(p)

PointerClick == ClickDue /\ GestureTick /\ Click(<<lastOp.x, lastOp.y>>)

NextPointer ==
    \/ \E p \in PointerPositions : PointerDown(p)
    \/ \E p \in PointerPositions : PointerMove(p)
    \/ \E p \in PointerPositions : PointerUp(p)
    \/ PointerClick

SpecPointer == Init /\ [][NextPointer]_vars

PassTick == events < MaxPasses /\ events' = events + 1 /\ UNCHANGED <<hostVars, storeVars>>

\* the frame callback has begun: the first loop of updatePhysics
RepelOnly ==
    /\ lastOp.name \notin {"repel", "spring"}
    /\ pendingFrame # 0
    /\ animation.running
    /\ nodes' = RepelPass(nodes, 1, 1)
    /\ Op("repel", 0, 0)
    /\ UNCHANGED <<notes, canvas, edges, gen, detached, camera, handlerVars, genNotes,
                   lifeVars>>

\* the second loop
SpringOnly ==
    /\ lastOp.name = "repel"
    /\ nodes' = SpringPass(nodes, edges, 1)
    /\ Op("spring", 0, 0)
    /\ UNCHANGED <<notes, canvas, edges, gen, detached, camera, handlerVars, genNotes,
                   lifeVars>>

\* the third loop, and the rest of the frame: render, request the next frame
MoveOnly ==
    /\ lastOp.name = "spring"
    /\ nodes' = [k \in 1..Len(nodes) |->
                     MoveNode(nodes[k], IsLive(dragNode) /\ dragNode.idx = k, canvas)]
    /\ drawn' = Render(nodes')
    /\ animation' = [animation EXCEPT !.frame = RequestAnimationFrame(@)]
    /\ pendingFrame' = animation'.frame
    /\ Op("move", 0, 0)
    /\ UNCHANGED <<notes, canvas, edges, gen, detached, camera, handlerVars, genNotes,
                   listeners, destroyed>>

NextPasses ==
    \/ PassTick /\ RepelOnly
    \/ PassTick /\ SpringOnly
    \/ PassTick /\ MoveOnly

SpecPasses == InitGen /\ [][NextPasses]_vars

HoverTick == events < MaxHover /\ events' = events + 1 /\ UNCHANGED <<hostVars, storeVars>>

\* where the pointer moves to: the pointer positions, and two points half a pixel (of
\* the graph) inside and outside the rim of the first node
HoverPositions ==
    PointerPositions
    \cup (IF Len(nodes) = 0 THEN {}
          ELSE {<<ScreenX(1) + Quot((nodes[1].radius + d) * camera.zoom, Milli), ScreenY(1)>> :
                    d \in {-(Unit \div 2), Unit \div 2}})

NextHit ==
    \/ \E p \in HoverPositions : HoverTick /\ MouseMove(p)
    \/ \E p \in PointerPositions, deltaY \in {-1, 1} : HoverTick /\ Wheel(p, deltaY)

SpecHit == Init /\ [][NextHit]_vars

(***************************************************************************)
(* The host application: UIManager shows the graph view by making a new    *)
(* GraphRenderer for the graph container, on every switch of the view to   *)
(* the graph and on every notesChanged event while the graph is shown.     *)
(* SpecHost: the graph view as first shown, then view switches, changes of *)
(* the note collection and the frames of every animation loop the host     *)
(* has pending; at most MaxRenders steps.                                  *)
(***************************************************************************)
Views == {"notes", "tags", "graph"}

rendererVars == <<canvas, nodes, edges, gen, detached, camera, handlerVars, genNotes,
                  lifeVars>>

\* the listeners one more GraphRenderer and its event handler register: function
\* objects of their own, numbered from base + 1
BoundListenersFrom(base) ==
    {<<"canvas", CanvasEvents[k], base + k>> : k \in 1..Len(CanvasEvents)}
    \cup {<<"window", "resize", base + Len(CanvasEvents) + 1>>}

\* the loop of a renderer that is replaced: its running flag and its pending frame
LoopOf(anim, pending) == [running |-> anim.running, frame |-> pending]

\* what is left of the renderer that new GraphRenderer replaces: createCanvas empties
\* the container, so its canvas and the listeners on it receive no more events; its
\* window listener stays registered and its loop is left as it is
Replace(ls, anim, pending) ==
    [listeners |-> {l \in ls : l[1] # "canvas"},
     loop |-> LoopOf(anim, pending)]

\* UIManager.renderGraph: new GraphRenderer(this.graphContainer, this.noteManager) on
\* the note list ns, held in a local constant
RenderGraphView(ns) ==
    LET old == Replace(listeners, animation, pendingFrame)
    IN  /\ replaced' = Append(replaced, old.loop)
        /\ listeners' = old.listeners \cup BoundListenersFrom(FreshFunction(listeners) - 1)
        /\ \E layout \in Layouts(canvas) :
               LET g == GenerateGraph(ns, layout, canvas)
               IN  /\ nodes' = UpdatePhysics(g.nodes, g.edges, canvas, 0)
                   /\ edges' = g.edges
        /\ drawn' = Render(nodes')
        /\ animation' = [frame |-> RequestAnimationFrame(0), running |-> TRUE]
        /\ pendingFrame' = animation'.frame
        /\ destroyed' = FALSE
        /\ gen' = 1
        /\ detached' = <<>>
        /\ camera' = [x |-> 0, y |-> 0, zoom |-> Milli]
        /\ isDragging' = FALSE
        /\ isPanning' = FALSE
        /\ dragNode' = NoRef
        /\ lastPanPos' = NoPos
        /\ hoveredNode' = NoRef
        /\ selectedNode' = NoRef
        /\ cursor' = "grab"
        /\ genNotes' = ns
        /\ UNCHANGED canvas

\* UIManager.render: the graph is rendered when it is the current view
UIRender(view, ns) ==
    IF view = "graph" THEN RenderGraphView(ns) ELSE UNCHANGED <<rendererVars, replaced>>

\* UIManager.switchView
SwitchView(view) ==
    /\ currentView' = view
    /\ UIRender(view, notes)
    /\ Op("switchView", 0, 0)
    /\ UNCHANGED <<notes, storeVars>>

\* NoteManager.addNote and deleteNote, which emit notesChanged: the listener of
\* setupNoteManagerListeners calls UIManager.render
NoteAdded(note) ==
    /\ Len(MapSet(notes, note)) <= MaxNotes
    /\ AddNoteCall(note)
    /\ UIRender(currentView, notes')
    /\ Op("addNote", note.id, 0)
    /\ UNCHANGED currentView

NoteDeleted(id) ==
    /\ Has(notes, id)
    /\ DeleteNoteCall(id)
    /\ UIRender(currentView, notes')
    /\ Op("deleteNote", id, 0)
    /\ UNCHANGED currentView

\* the host runs the frame callback a replaced renderer has pending: the animate
\* closure of that renderer, which requests the next frame while running
ReplacedFrame(k) ==
    /\ replaced[k].frame # 0
    /\ replaced' = [replaced EXCEPT ![k].frame =
                        IF replaced[k].running THEN RequestAnimationFrame(@) ELSE 0]
    /\ Op("replacedFrame", k, 0)
    /\ UNCHANGED <<notes, rendererVars, currentView, storeVars>>

HostTick == events < MaxRenders /\ events' = events + 1

\* the notes the user adds and deletes while the graph view is watched
HostNotes == {NoteWithId(2), NoteWithId(4)}

NextHost ==
    \/ \E view \in Views : HostTick /\ SwitchView(view)
    \/ \E note \in HostNotes : HostTick /\ NoteAdded(note)
    \/ \E note \in HostNotes : HostTick /\ NoteDeleted(note.id)
    \/ HostTick /\ Frame /\ UNCHANGED <<hostVars, storeVars>>
    \/ \E k \in 1..Len(replaced) : HostTick /\ ReplacedFrame(k)

SpecHost == Init /\ [][NextHost]_vars

(***************************************************************************)
(* The note store under its callers.                                       *)
(* SpecNotes: a NoteManager that starts with no stored notes, under calls  *)
(* of addNote, updateNote, deleteNote and importNotes and reloads of the   *)
(* page; at most MaxCalls calls.                                           *)
(***************************************************************************)
CallIds == {1, 2}

\* contents: empty; [[B]]; [[C]][[ B]][[C]]
NoteContents ==
    { <<>>,
      <<"[", "[", "B", "]", "]">>,
      <<"[", "[", "C", "]", "]", "[", "[", " ", "B", "]", "]", "[", "[", "C", "]", "]">> }

\* the notes the editor makes: new Note(title, content, tags)
NewNotes == {NewNote(id, "A", content, <<>>) : id \in CallIds, content \in NoteContents}

\* the updates passed to updateNote: none, a content, a title, a title and a content
NoteUpdates ==
    {[has |-> {}, title |-> "", content |-> <<>>],
     [has |-> {"title"}, title |-> "B", content |-> <<>>]}
    \cup {[has |-> {"content"}, title |-> "", content |-> content] :
              content \in NoteContents}
    \cup {[has |-> {"title", "content"}, title |-> "B", content |-> content] :
              content \in NoteContents \ {<<>>}}

\* an entry as exportNotes writes it
Entry(id) == Serialize(NewNote(id, "A", <<"[", "[", "B", "]", "]">>, <<>>))

\* an entry with no content, which Note.deserialize throws on
Unusable(id) == [Entry(id) EXCEPT !.usable = FALSE]

\* an entry with no links array
Unlisted(id) == [Entry(id) EXCEPT !.hasLinks = FALSE, !.links = <<>>]

\* the texts passed to importNotes
JsonDocuments ==
    {[kind |-> "malformed", notes |-> <<>>],
     [kind |-> "noNotes", notes |-> <<>>]}
    \cup {[kind |-> "notes", notes |-> entries] :
              entries \in {<<>>, <<Entry(1)>>, <<Entry(1), Entry(2)>>,
                           <<Entry(2), Unusable(1)>>, <<Unusable(1), Entry(2)>>,
                           <<Unlisted(1)>>}}

CallTick == events < MaxCalls /\ events' = events + 1 /\ UNCHANGED hostVars

NextNotes ==
    \/ \E note \in NewNotes : CallTick /\ AddNote(note)
    \/ \E id \in CallIds, updates \in NoteUpdates : CallTick /\ UpdateNote(id, updates)
    \/ \E id \in CallIds : CallTick /\ DeleteNote(id)
    \/ \E json \in JsonDocuments : CallTick /\ ImportNotes(json)
    \/ CallTick /\ LoadNotes

\* the application opened for the first time: nothing stored, no notes
InitNotes == Constructed(<<>>)

SpecNotes == InitNotes /\ [][NextNotes]_vars

(***************************************************************************)
(* Properties of the generated graph.  They are stated on the note list    *)
(* the graph was built from (genNotes), not on the operators that built    *)
(* it.                                                                     *)
(***************************************************************************)
EdgePair(e) == {e.source, e.target}

EdgesBetween(a, b) == {k \in 1..Len(edges) : EdgePair(edges[k]) = {a, b}}

LinkEdges == {k \in 1..Len(edges) : edges[k].type = "link"}

\* the unordered pairs of the edge list, each with its kind
EdgeSet == {<<EdgePair(edges[k]), edges[k].type>> : k \in 1..Len(edges)}

SameLetters(s, t) == Lower(s) = Lower(t)

\* note a has a link that reads as note b's title
LinksTo(a, b) == \E k \in 1..Len(a.links) : SameLetters(a.links[k], b.title)

ShareTag(a, b) == Range(a.tags) \cap Range(b.tags) # {}

\* the index in genNotes of the first note whose title reads as title, 0 if none
Resolve(title) ==
    LET hits == {k \in 1..Len(genNotes) : SameLetters(genNotes[k].title, title)}
    IN  IF hits = {} THEN 0 ELSE CHOOSE k \in hits : \A m \in hits : k <= m

\* note i has a link that resolves to note j
ResolvesTo(i, j) == \E k \in 1..Len(genNotes[i].links) : Resolve(genNotes[i].links[k]) = j

NotePairs == {p \in (1..Len(genNotes)) \X (1..Len(genNotes)) : p[1] # p[2]}

OneLinkEdge(i, j) ==
    /\ Cardinality(EdgesBetween(genNotes[i].id, genNotes[j].id)) = 1
    /\ \A k \in EdgesBetween(genNotes[i].id, genNotes[j].id) :
           edges[k].type = "link" /\ edges[k].strength = LinkStrength

Generated == lastOp.name \in {"init", "refresh"}

\* C1: no two entries of the edge list join the same unordered pair of node ids
C1_OneEdgePerPair ==
    \A i, j \in 1..Len(edges) : i # j => EdgePair(edges[i]) # EdgePair(edges[j])

\* a refresh of two notes that link to each other and share a tag
C1_Witness ==
    /\ lastOp.name = "refresh"
    /\ \E p \in NotePairs :
           /\ ResolvesTo(p[1], p[2]) /\ ResolvesTo(p[2], p[1])
           /\ ShareTag(genNotes[p[1]], genNotes[p[2]])
           /\ EdgesBetween(genNotes[p[1]].id, genNotes[p[2]].id) # {}

\* C2 as stated: a note with a link reading as another note's title, the two sharing
\* a tag, has exactly one edge to it, a link edge of strength 1
C2_LinkToTitleGivesLinkEdge ==
    \A p \in NotePairs :
        LinksTo(genNotes[p[1]], genNotes[p[2]]) /\ ShareTag(genNotes[p[1]], genNotes[p[2]])
            => OneLinkEdge(p[1], p[2])

\* C2 amended: a note with a link that resolves to another note (the first note in
\* note order whose title reads as the link), the two sharing a tag, has exactly one
\* edge to it, a link edge of strength 1
C2_ResolvedLinkGivesLinkEdge ==
    \A p \in NotePairs :
        ResolvesTo(p[1], p[2]) /\ ShareTag(genNotes[p[1]], genNotes[p[2]])
            => OneLinkEdge(p[1], p[2])

\* a one-way link between two notes that share a tag, after a refresh
C2_Witness ==
    /\ lastOp.name = "refresh"
    /\ \E p \in NotePairs :
           /\ ResolvesTo(p[1], p[2]) /\ ~ResolvesTo(p[2], p[1])
           /\ ShareTag(genNotes[p[1]], genNotes[p[2]])
           /\ OneLinkEdge(p[1], p[2])

\* the pairs of ids a link edge is due between
ResolvedPairs == {{genNotes[p[1]].id, genNotes[p[2]].id} : p \in {q \in NotePairs : ResolvesTo(q[1], q[2])}}

\* C3: the link edges are the resolved links, one edge each; without a resolved link
\* and without a shared tag there are N nodes and no edge
C3_LinkEdgesAreResolvedLinks ==
    /\ {EdgePair(edges[k]) : k \in LinkEdges} = ResolvedPairs
    /\ Cardinality(LinkEdges) = Cardinality(ResolvedPairs)
    /\ (ResolvedPairs = {} /\ \A p \in NotePairs : ~ShareTag(genNotes[p[1]], genNotes[p[2]]))
           => Len(nodes) = Len(genNotes) /\ Len(edges) = 0

\* two notes that link to each other, one of them in another case, after a refresh
C3_Witness ==
    /\ lastOp.name = "refresh"
    /\ \E p \in NotePairs :
           /\ ResolvesTo(p[1], p[2]) /\ ResolvesTo(p[2], p[1])
           /\ \E k \in 1..Len(genNotes[p[1]].links) :
                  /\ Resolve(genNotes[p[1]].links[k]) = p[2]
                  /\ genNotes[p[1]].links[k] # genNotes[p[2]].title
           /\ Cardinality(EdgesBetween(genNotes[p[1]].id, genNotes[p[2]].id)) = 1

LinkDegree(id) == Cardinality({k \in LinkEdges : id \in EdgePair(edges[k])})

ScenarioABC == <<NoteWithId(1), NoteWithId(2), NoteWithId(3)>>

\* C4: a node's connection count is the number of link edges at it; for A -> B with
\* B and C sharing a tag the counts are 1, 1, 0 and the edges (A,B) link, (B,C) tag
C4_ConnectionsAreLinkDegree ==
    /\ \A k \in 1..Len(nodes) : nodes[k].connections = LinkDegree(nodes[k].id)
    /\ genNotes = ScenarioABC =>
           /\ [k \in 1..3 |-> nodes[k].connections] = <<1, 1, 0>>
           /\ EdgeSet = {<<{1, 2}, "link">>, <<{2, 3}, "tag">>}

\* the scenario, regenerated
C4_Witness ==
    /\ lastOp.name = "refresh"
    /\ lastOp.again
    /\ genNotes = ScenarioABC
    /\ Len(edges) = 2

\* C5: radius = max(base, base + 2 * connections), which grows with the count and
\* ignores tag edges
C5_RadiusFromConnections ==
    /\ \A k \in 1..Len(nodes) :
           /\ nodes[k].radius =
                  Max2(NodeRadius * Unit, NodeRadius * Unit + 2 * Unit * nodes[k].connections)
           /\ nodes[k].radius = NodeRadius * Unit + 2 * Unit * LinkDegree(nodes[k].id)
           /\ nodes[k].radius >= NodeRadius * Unit
    /\ \A i, j \in 1..Len(nodes) :
           nodes[i].connections > nodes[j].connections => nodes[i].radius > nodes[j].radius

\* a node of three connections beside a smaller one that has a tag edge
C5_Witness ==
    /\ lastOp.name = "refresh"
    /\ \E i, j \in 1..Len(nodes) :
           /\ nodes[i].connections = 3
           /\ nodes[j].connections < 3
           /\ \E k \in 1..Len(edges) :
                  edges[k].type = "tag" /\ nodes[j].id \in EdgePair(edges[k])

\* C6: a refresh with the note list the graph was built from leaves the edge set
\* as it is
C6_RefreshKeepsEdgeSet ==
    [][lastOp'.name = "refresh" /\ genNotes' = genNotes => EdgeSet' = EdgeSet]_vars

\* a second refresh in a row, of a graph with edges of both kinds
C6_Witness ==
    /\ lastOp.name = "refresh"
    /\ lastOp.again
    /\ \E i, j \in 1..Len(edges) : edges[i].type = "link" /\ edges[j].type = "tag"

(***************************************************************************)
(* Properties of the camera and of dragging.                               *)
(***************************************************************************)
ZoomWithinLimits == ZoomMin <= camera.zoom /\ camera.zoom <= ZoomMax

\* C7: from zoom 1, after any run of wheel events the zoom is within [0.1, 3.0]
C7_WheelKeepsZoomWithinLimits == ZoomWithinLimits

\* a wheel event that left the zoom at the lower limit
C7_Witness == lastOp.name = "wheel" /\ camera.zoom = ZoomMin /\ events >= 22

\* C8: in every state of a graph view the zoom is positive and within [0.1, 3.0]
C8_ZoomAlwaysWithinLimits == camera.zoom > 0 /\ ZoomWithinLimits

Dragging == isDragging /\ dragNode # NoRef

\* C9: a pointer-move of a drag leaves the dragged node at (pointer - pan) / zoom with
\* velocity (0, 0), and a frame does not change the dragged node's position
C9_DragPlacesNodeAndFrameKeepsIt ==
    /\ [](lastOp.name = "mousemove" /\ Dragging =>
              /\ Deref(dragNode).x = Quot((lastOp.x - camera.x) * Milli, camera.zoom)
              /\ Deref(dragNode).y = Quot((lastOp.y - camera.y) * Milli, camera.zoom)
              /\ Deref(dragNode).vx = 0
              /\ Deref(dragNode).vy = 0)
    /\ [][lastOp'.name = "frame" /\ Dragging =>
              /\ Deref(dragNode)'.x = Deref(dragNode).x
              /\ Deref(dragNode)'.y = Deref(dragNode).y]_vars

\* a frame during a drag, after the node was dragged to the fixed pointer position and
\* while forces act on it
C9_Witness ==
    /\ lastOp.name = "frame"
    /\ Dragging
    /\ IsLive(dragNode)
    /\ camera = [x |-> 0, y |-> 0, zoom |-> Milli]
    /\ nodes[dragNode.idx].x = canvas.w \div 2
    /\ nodes[dragNode.idx].y = canvas.h \div 10
    /\ nodes[dragNode.idx].vx # 0

\* C10: a frame with a drag target leaves the target's position and velocity as they were
C10_FrameLeavesDragTargetUntouched ==
    [][lastOp'.name = "frame" /\ Dragging /\ IsLive(dragNode) =>
           nodes'[dragNode.idx] = nodes[dragNode.idx]]_vars

(***************************************************************************)
(* Properties of selection, zoom-to-fit and the lifecycle.                 *)
(***************************************************************************)
\* the node object under the screen point (x, y), NoRef if none
Hit(x, y) == Ref(GetNodeAt(nodes, camera, x, y))

\* the reference names one node object, current or held from an earlier graph
OneNode(r) == IsLive(r) \/ r \in DOMAIN detached

Close(a, b) == Abs(a - b) <= 2

\* where the camera draws the graph coordinate
OnScreenX(x) == camera.x + Quot(x * camera.zoom, Milli)

OnScreenY(y) == camera.y + Quot(y * camera.zoom, Milli)

Fitted == lastOp.name = "zoomToFit" /\ Len(nodes) > 0

\* C12: after zoomToFit on a graph with nodes the zoom is at most 1, the centre of the
\* nodes' bounding box is drawn at the canvas centre, every node centre is drawn
\* inside the canvas and a single node is centred; without nodes zoomToFit leaves the
\* camera as it is
C12_ZoomToFitCentresGraph ==
    /\ [](Fitted =>
             LET b == GetGraphBounds(nodes)
             IN  /\ camera.zoom <= Milli
                 /\ Close(OnScreenX(Quot(b.minX + b.maxX, 2)), Quot(canvas.w, 2))
                 /\ Close(OnScreenY(Quot(b.minY + b.maxY, 2)), Quot(canvas.h, 2))
                 /\ \A k \in 1..Len(nodes) :
                        /\ 0 <= ScreenX(k) /\ ScreenX(k) <= canvas.w
                        /\ 0 <= ScreenY(k) /\ ScreenY(k) <= canvas.h
                 /\ Len(nodes) = 1 =>
                        /\ Close(ScreenX(1), Quot(canvas.w, 2))
                        /\ Close(ScreenY(1), Quot(canvas.h, 2)))
    /\ [][lastOp'.name = "zoomToFit" /\ Len(nodes) = 0 => camera' = camera]_vars

\* zoomToFit of three nodes apart from each other that had to zoom out
C12_Witness ==
    /\ Fitted
    /\ Len(nodes) = 3
    /\ camera.zoom < Milli
    /\ GetGraphBounds(nodes).minX < GetGraphBounds(nodes).maxX

\* the events the graph registers listeners for
InputEvents ==
    {"resize", "mousedown", "mousemove", "mouseup", "wheel", "click",
     "touchstart", "touchmove", "touchend"}

\* C13: an event delivered after destroy() invokes no handler of the graph: it changes
\* neither its canvas, nor its camera, nor its interaction state
C13_NoHandlerRunsAfterDestroy ==
    [][destroyed /\ lastOp'.name \in InputEvents =>
           UNCHANGED <<canvas, camera, handlerVars>>]_vars

\* C14: destroy() and stopAnimation() leave the running flag false and no frame request
\* pending; from then on the flag stays false, no request is pending, and a frame
\* callback changes neither the nodes nor the drawing
C14_NoFrameAfterStop ==
    /\ [](~animation.running => pendingFrame = 0)
    /\ [][lastOp'.name \in {"destroy", "stopAnimation"} =>
             ~animation'.running /\ pendingFrame' = 0]_vars
    /\ [][~animation.running =>
             /\ ~animation'.running
             /\ lastOp'.name = "frame" => UNCHANGED <<nodes, drawn>>]_vars

\* a graph of three nodes some event after its destroy(), which found a frame requested
C14_Witness ==
    /\ destroyed
    /\ lastOp.name # "destroy"
    /\ ~animation.running
    /\ animation.frame # 0
    /\ Len(nodes) = 3

AtRest == \A k \in 1..Len(nodes) : nodes[k].vx = 0 /\ nodes[k].vy = 0

\* C15: while running, a frame does one physics step, then a render of its result, and
\* requests the next frame; the flag falls only by destroy() or stopAnimation(); and
\* under a host that runs every requested frame, frames recur for ever unless the loop
\* is stopped (each frame takes the other of the two request handles)
C15_LoopRunsUntilStopped ==
    /\ [][lastOp'.name = "frame" /\ animation.running =>
             /\ nodes' = UpdatePhysics(nodes, edges, canvas,
                                       IF IsLive(dragNode) THEN dragNode.idx ELSE 0)
             /\ drawn' = Render(nodes')
             /\ animation'.frame # animation.frame
             /\ pendingFrame' = animation'.frame
             /\ animation'.running]_vars
    /\ [][animation.running /\ ~animation'.running =>
             lastOp'.name \in {"destroy", "stopAnimation"}]_vars
    /\ []<>(~animation.running \/ pendingFrame = 1)
    /\ []<>(~animation.running \/ pendingFrame = 2)

\* a frame of the running loop that found three nodes apart and at rest, and left them so
C15_Witness ==
    /\ lastOp.name = "frame"
    /\ animation.running
    /\ Len(nodes) = 3
    /\ AtRest
    /\ GetGraphBounds(nodes).minX < GetGraphBounds(nodes).maxX

\* C16: the handler is never dragging a node and panning at the same time
C16_DraggingExcludesPanning == ~(isDragging /\ dragNode # NoRef /\ isPanning)

\* the operations that are handlers of GraphEventHandler
HandlerOps ==
    {"mousedown", "mousemove", "mouseup", "click", "wheel",
     "touchstart", "touchmove", "touchend"}

\* C17 as stated: only a handler of the event handler changes the camera
C17_OnlyHandlersChangeCamera ==
    [][lastOp'.name \notin HandlerOps => camera' = camera]_vars

\* C17 amended: only a handler of the event handler or zoomToFit() changes the camera;
\* a frame, a refresh, a resize, stopAnimation() and destroy() leave it as it is
C17_OnlyHandlersAndZoomToFitChangeCamera ==
    [][lastOp'.name \notin HandlerOps \cup {"zoomToFit"} => camera' = camera]_vars

\* a frame, refresh, resize or destroy of a graph whose camera has been panned and zoomed
C17_Witness ==
    /\ lastOp.name \in {"frame", "refresh", "resize", "destroy"}
    /\ camera.zoom # Milli
    /\ camera.x # 0

\* C18: a graph generated from no notes has no nodes and no edges, its render draws the
\* empty-state message alone, and no event makes a node the drag target, the hovered
\* node or the selected node
C18_EmptyCollectionEmptyGraph ==
    genNotes = <<>> =>
        /\ nodes = <<>>
        /\ edges = <<>>
        /\ drawn = "emptyState"
        /\ dragNode = NoRef
        /\ hoveredNode = NoRef
        /\ selectedNode = NoRef
        /\ ~isDragging

\* the release of a press-move-release gesture on the empty graph: the move has panned
C18_Witness ==
    /\ genNotes = <<>>
    /\ lastOp.name = "mouseup"
    /\ camera.x # 0

\* C19: a mousedown on a node makes that node the drag target, with the grabbing cursor;
\* a mousedown on no node starts a pan from the pointer position, with the move cursor;
\* neither changes the camera, a node, the hovered node or the selection
C19_PointerDownStartsDragOrPan ==
    [][lastOp'.name = "mousedown" =>
           LET n == Hit(lastOp'.x, lastOp'.y)
           IN  /\ n # NoRef =>
                      isDragging' /\ dragNode' = n /\ cursor' = "grabbing"
               /\ n = NoRef =>
                      /\ isPanning'
                      /\ lastPanPos' = <<lastOp'.x, lastOp'.y>>
                      /\ cursor' = "move"
               /\ UNCHANGED <<camera, nodes, hoveredNode, selectedNode>>]_vars

\* a mousedown on a node of a graph that has a selected and a hovered node
C19_Witness ==
    /\ lastOp.name = "mousedown"
    /\ isDragging
    /\ IsLive(dragNode)
    /\ cursor = "grabbing"
    /\ selectedNode # NoRef
    /\ hoveredNode # NoRef

Released == lastOp.name \in {"mouseup", "touchend"}

\* C20: after a mouseup or touchend the handler neither drags nor pans, holds no drag
\* target and no pan position, and shows the pointer cursor over a hovered node and the
\* grab cursor otherwise; a pointer-move that follows changes no node and no camera
C20_PointerUpReturnsToIdle ==
    /\ [](Released =>
             /\ ~isDragging
             /\ ~isPanning
             /\ dragNode = NoRef
             /\ lastPanPos = NoPos
             /\ cursor = IF hoveredNode # NoRef THEN "pointer" ELSE "grab")
    /\ [][Released /\ lastOp'.name \in {"mousemove", "touchmove"} =>
             UNCHANGED <<nodes, camera>>]_vars

\* the release of a drag that has put a node at the fixed point of the canvas
C20_Witness ==
    /\ lastOp.name = "mouseup"
    /\ camera = [x |-> 0, y |-> 0, zoom |-> Milli]
    /\ \E k \in 1..Len(nodes) :
           /\ nodes[k].x = canvas.w \div 2
           /\ nodes[k].y = canvas.h \div 10
           /\ nodes[k].vx = 0 /\ nodes[k].vy = 0

(***************************************************************************)
(* Properties of pointer gestures.                                         *)
(***************************************************************************)
\* C21: only a click changes the selection, and the click that follows a press on a
\* node, moves that drag it and the release leaves the selection as it was
C21_DragGestureKeepsSelection ==
    /\ [][selectedNode' # selectedNode => lastOp'.name = "click"]_vars
    /\ [][lastOp'.name = "click" /\ lastOp.name = "mouseup" /\ gesture.dragged =>
             selectedNode' = selectedNode]_vars

\* the state Panning of the handler
Panning == isPanning /\ lastPanPos # NoPos

\* a mousedown on empty space and the mousemoves that followed it, the last just now
PanGesture == lastOp.name = "mousemove" /\ gesture.pressed /\ ~gesture.onNode

\* C22: a mousemove while panning adds the pointer's move since the last position to
\* the pan, makes the pointer the last position and changes neither the zoom nor a
\* node; after a mousedown on empty space at p0 and mousemoves to p1 .. pn the pan is
\* the pan at the press plus pn - p0
C22_PanFollowsPointer ==
    /\ [][lastOp'.name = "mousemove" /\ Panning =>
             /\ camera'.x = camera.x + lastOp'.x - lastPanPos[1]
             /\ camera'.y = camera.y + lastOp'.y - lastPanPos[2]
             /\ lastPanPos' = <<lastOp'.x, lastOp'.y>>
             /\ camera'.zoom = camera.zoom
             /\ UNCHANGED <<nodes, detached>>]_vars
    /\ [](PanGesture =>
             /\ camera.x = gesture.panX + lastOp.x - gesture.x
             /\ camera.y = gesture.panY + lastOp.y - gesture.y)

(***************************************************************************)
(* Properties of the wheel zoom.                                           *)
(***************************************************************************)
\* the two graph coordinates are drawn less than 0.03 px apart at the given zoom
SamePoint(a, b, zoom) == Abs(a - b) * zoom <= 3 * Milli

\* C23: a wheel event sets the zoom to zoom * 1.1 (deltaY <= 0) or zoom * 0.9
\* (deltaY > 0) clamped to [0.1, 3.0], and the pan so that the graph point under the
\* pointer is the same before and after; at a limit, pushed further, it leaves the
\* camera as it is
C23_WheelZoomsAboutPointer ==
    [][lastOp'.name = "wheel" =>
           LET px     == lastOp'.x
               py     == lastOp'.y
               factor == IF lastOp'.deltaY > 0 THEN 9 ELSE 11
           IN  /\ camera'.zoom =
                      Max2(Milli \div 10, Min2(3 * Milli, Quot(camera.zoom * factor, 10)))
               /\ SamePoint(Quot((px - camera'.x) * Milli, camera'.zoom),
                            Quot((px - camera.x) * Milli, camera.zoom), camera'.zoom)
               /\ SamePoint(Quot((py - camera'.y) * Milli, camera'.zoom),
                            Quot((py - camera.y) * Milli, camera.zoom), camera'.zoom)
               /\ \/ camera.zoom = 3 * Milli /\ lastOp'.deltaY <= 0
                  \/ camera.zoom = Milli \div 10 /\ lastOp'.deltaY > 0
                  => camera' = camera]_vars

\* a wheel event with deltaY = 0 at a pointer away from the pan, the zoom above 1 and
\* below the limit
C23_Witness ==
    /\ lastOp.name = "wheel"
    /\ lastOp.deltaY = 0
    /\ lastOp.x # camera.x
    /\ camera.zoom > Milli
    /\ camera.zoom < 3 * Milli
    /\ events >= 2

(***************************************************************************)
(* Properties of the physics step.                                         *)
(***************************************************************************)
\* a frame of the running loop: one physics step
PhysicsStep == lastOp'.name = "frame" /\ animation.running

\* the nodes the step moves: all but the drag target
Moved == {k \in 1..Len(nodes) : ~(IsLive(dragNode) /\ dragNode.idx = k)}

Margin(node) == node.radius + 10 * Unit

\* the axis has room for the node between its two margins
Roomy(node, size) == size >= 2 * Margin(node)

InsideAxis(p, margin, size) == margin <= p /\ p <= size - margin

\* the position did not move by the velocity the step left: a clamp moved it
ClampedAxis(p, pAfter, vAfter) == pAfter # p + vAfter

\* C24 as stated: after a physics step every node but the drag target lies within its
\* margin (radius + 10) of the canvas edges on both axes, whatever the canvas size, and
\* has velocity 0 on every axis on which the clamp moved it
C24_StepKeepsNodesInsideCanvas ==
    [][PhysicsStep =>
           \A k \in Moved :
               /\ InsideAxis(nodes'[k].x, Margin(nodes[k]), canvas.w)
               /\ InsideAxis(nodes'[k].y, Margin(nodes[k]), canvas.h)
               /\ ClampedAxis(nodes[k].x, nodes'[k].x, nodes'[k].vx) => nodes'[k].vx = 0
               /\ ClampedAxis(nodes[k].y, nodes'[k].y, nodes'[k].vy) => nodes'[k].vy = 0]_vars

\* C24 amended: the same on every axis that is at least 2 * (radius + 10) long; on a
\* shorter axis the step leaves the node at length - (radius + 10) with velocity 0
C24_StepKeepsNodesInsideRoomyCanvas ==
    [][PhysicsStep =>
           \A k \in Moved :
               /\ IF Roomy(nodes[k], canvas.w)
                  THEN InsideAxis(nodes'[k].x, Margin(nodes[k]), canvas.w)
                  ELSE nodes'[k].x = canvas.w - Margin(nodes[k]) /\ nodes'[k].vx = 0
               /\ IF Roomy(nodes[k], canvas.h)
                  THEN InsideAxis(nodes'[k].y, Margin(nodes[k]), canvas.h)
                  ELSE nodes'[k].y = canvas.h - Margin(nodes[k]) /\ nodes'[k].vy = 0
               /\ ClampedAxis(nodes[k].x, nodes'[k].x, nodes'[k].vx) => nodes'[k].vx = 0
               /\ ClampedAxis(nodes[k].y, nodes'[k].y, nodes'[k].vy) => nodes'[k].vy = 0]_vars

\* a frame that found a node outside its margin on a canvas with room, and clamped it
C24_Witness ==
    /\ lastOp.name = "frame"
    /\ animation.running
    /\ \E k \in 1..Len(nodes) :
           /\ Roomy(nodes[k], canvas.w)
           /\ nodes[k].y = Margin(nodes[k])
           /\ nodes[k].vy = 0
           /\ nodes[k].vx # 0

RECURSIVE SumFrom(_, _)
SumFrom(seq, k) == IF k > Len(seq) THEN 0 ELSE seq[k] + SumFrom(seq, k + 1)

\* the sum of the nodes' velocities, by axis
TotalVx(ns) == SumFrom([k \in 1..Len(ns) |-> ns[k].vx], 1)

TotalVy(ns) == SumFrom([k \in 1..Len(ns) |-> ns[k].vy], 1)

Distance(a, b) == Hypot(b.x - a.x, b.y - a.y)

\* two distinct nodes close enough to repel each other
Repelling(i, j) ==
    /\ i # j
    /\ Distance(nodes[i], nodes[j]) > 0
    /\ Distance(nodes[i], nodes[j]) < MaxDistance * Unit

\* what the repulsion pass does for the unordered pair {i, j}: its two visits
PairRepelled(i, j) == RepelStep(RepelStep(nodes, i, j), j, i)

\* d has the sign of toward, or is 0 where toward is
SameSide(d, toward) == (toward > 0 => d >= 0) /\ (toward < 0 => d <= 0) /\ (toward = 0 => d = 0)

\* the vector (ax, ay) lies along (bx, by), up to the rounding of its components: 0.04 px
\* and 0.4 % of its length
AlongLine(ax, ay, bx, by) ==
    Abs(ax * by - ay * bx) * 250 <= (1000 + Abs(ax) + Abs(ay)) * (Abs(bx) + Abs(by))

\* C25: the repulsion pass changes the velocities of a pair of distinct nodes at a
\* distance d, 0 < d < maxDistance, by opposite amounts that push the two apart along
\* the line between them, and leaves the sum of all velocities as it was; a node
\* whose pairs are all at distance 0 or at maxDistance or more keeps its velocity
C25_RepulsionIsSymmetric ==
    [][lastOp'.name = "repel" =>
           /\ TotalVx(nodes') = TotalVx(nodes)
           /\ TotalVy(nodes') = TotalVy(nodes)
           /\ \A k \in 1..Len(nodes) :
                  (\A j \in 1..Len(nodes) : ~Repelling(k, j)) => nodes'[k] = nodes[k]
           /\ Len(nodes) = 2 =>
                  /\ nodes'[1].vx - nodes[1].vx = -(nodes'[2].vx - nodes[2].vx)
                  /\ nodes'[1].vy - nodes[1].vy = -(nodes'[2].vy - nodes[2].vy)
           /\ \A i, j \in 1..Len(nodes) :
                  Repelling(i, j) =>
                      LET dvxI == PairRepelled(i, j)[i].vx - nodes[i].vx
                          dvyI == PairRepelled(i, j)[i].vy - nodes[i].vy
                          dvxJ == PairRepelled(i, j)[j].vx - nodes[j].vx
                          dvyJ == PairRepelled(i, j)[j].vy - nodes[j].vy
                      IN  /\ dvxI = -dvxJ
                          /\ dvyI = -dvyJ
                          /\ SameSide(dvxJ, nodes[j].x - nodes[i].x)
                          /\ SameSide(dvyJ, nodes[j].y - nodes[i].y)
                          /\ AlongLine(dvxJ, dvyJ, nodes[j].x - nodes[i].x,
                                       nodes[j].y - nodes[i].y)
                          /\ \A k \in 1..Len(nodes) \ {i, j} :
                                 PairRepelled(i, j)[k] = nodes[k]]_vars

\* a repulsion pass over a pair within reach, which it has set moving, and a pair out
\* of reach
C25_Witness ==
    /\ lastOp.name = "repel"
    /\ \E i, j \in 1..Len(nodes) : Repelling(i, j) /\ nodes[i].vx # 0
    /\ \E i, j \in 1..Len(nodes) :
           i # j /\ Distance(nodes[i], nodes[j]) >= MaxDistance * Unit

\* the index of the node with the given id
NodeOf(id) == CHOOSE k \in 1..Len(nodes) : nodes[k].id = id

\* maxDistance for a link edge, 1.5 * maxDistance for a shared-tag edge
Target(e) == IF e.type = "tag" THEN (MaxDistance * Unit * 3) \div 2 ELSE MaxDistance * Unit

Stretched(e) == Distance(nodes[NodeOf(e.source)], nodes[NodeOf(e.target)]) - Target(e)

\* the change from nodes to after moves the endpoints of e toward each other if they are
\* farther apart than the target and away from each other if they are closer, by
\* opposite amounts, and not at all at the target; 10 px or more off the target it
\* does move them
Sprung(after, e) ==
    LET a    == NodeOf(e.source)
        b    == NodeOf(e.target)
        dx   == nodes[b].x - nodes[a].x
        dy   == nodes[b].y - nodes[a].y
        dvxA == after[a].vx - nodes[a].vx
        dvyA == after[a].vy - nodes[a].vy
        dvxB == after[b].vx - nodes[b].vx
        dvyB == after[b].vy - nodes[b].vy
    IN  /\ dvxA = -dvxB
        /\ dvyA = -dvyB
        /\ Stretched(e) > 0 => SameSide(dvxA, dx) /\ SameSide(dvyA, dy)
        /\ Stretched(e) < 0 => SameSide(dvxA, -dx) /\ SameSide(dvyA, -dy)
        /\ Stretched(e) = 0 => dvxA = 0 /\ dvyA = 0
        /\ Abs(Stretched(e)) >= 10 * Unit => dvxA # 0 \/ dvyA # 0
        /\ AlongLine(dvxA, dvyA, dx, dy)
        /\ \A k \in 1..Len(nodes) \ {a, b} : after[k] = nodes[k]

\* C26: the spring pass changes the velocities of the two endpoints of an edge at a
\* distance d > 0 by opposite amounts, toward each other if d is above the target
\* distance and away from each other if it is below, the target being maxDistance for
\* a link edge and 1.5 * maxDistance for a shared-tag edge; endpoints on one point and
\* nodes without an edge keep their velocity
C26_SpringsDriveTowardTarget ==
    [][lastOp'.name = "spring" =>
           /\ TotalVx(nodes') = TotalVx(nodes)
           /\ TotalVy(nodes') = TotalVy(nodes)
           /\ \A k \in 1..Len(nodes) :
                  (\A e \in Range(edges) :
                       \/ nodes[k].id \notin {e.source, e.target}
                       \/ Distance(nodes[NodeOf(e.source)], nodes[NodeOf(e.target)]) = 0)
                  => nodes'[k] = nodes[k]
           /\ \A e \in Range(edges) :
                  Distance(nodes[NodeOf(e.source)], nodes[NodeOf(e.target)]) > 0
                      => Sprung(SpringStep(nodes, e), e)
           /\ Len(edges) = 1 /\ Stretched(edges[1]) > -Target(edges[1])
                  => Sprung(nodes', edges[1])]_vars

\* a spring pass over a link edge longer than its target and a shared-tag edge whose
\* length lies between the two targets
C26_Witness ==
    /\ lastOp.name = "spring"
    /\ \E e \in Range(edges) : e.type = "link" /\ Stretched(e) >= 10 * Unit
    /\ \E e \in Range(edges) :
           /\ e.type = "tag"
           /\ Stretched(e) <= -(10 * Unit)
           /\ Stretched(e) > -(MaxDistance * Unit) \div 2

(***************************************************************************)
(* Properties of a generation.                                             *)
(***************************************************************************)
\* the node list is the placement layout, moved as a whole
TranslationOf(layout) ==
    \A i, j \in 1..Len(nodes) :
        /\ nodes[i].x - nodes[j].x = layout[i][1] - layout[j][1]
        /\ nodes[i].y - nodes[j].y = layout[i][2] - layout[j][2]

\* C27: right after a generation from a non-empty note list the centre of the nodes'
\* bounding box is the centre of the canvas, and the nodes lie as the random placement
\* put them, all moved by one offset
C27_GenerationCentresGraph ==
    lastOp.name = "refresh" /\ Len(genNotes) > 0 =>
        LET b == GetGraphBounds(nodes)
        IN  /\ Len(nodes) > 0
            /\ (b.minX + b.maxX) \div 2 = canvas.w \div 2
            /\ (b.minY + b.maxY) \div 2 = canvas.h \div 2
            /\ \A k \in 1..Len(nodes) :
                   /\ b.minX <= nodes[k].x /\ nodes[k].x <= b.maxX
                   /\ b.minY <= nodes[k].y /\ nodes[k].y <= b.maxY
            /\ \E k \in 1..Len(nodes) : nodes[k].x = b.minX
            /\ \E k \in 1..Len(nodes) : nodes[k].x = b.maxX
            /\ \E k \in 1..Len(nodes) : nodes[k].y = b.minY
            /\ \E k \in 1..Len(nodes) : nodes[k].y = b.maxY
            /\ \E layout \in Layouts(canvas) : TranslationOf(layout)

\* a generation of four nodes whose first node is not at the centre of the bounding box
C27_Witness ==
    /\ lastOp.name = "refresh"
    /\ Len(nodes) = 4
    /\ nodes[1].x # canvas.w \div 2
    /\ GetGraphBounds(nodes).minX < GetGraphBounds(nodes).maxX

NodeIds == {nodes[k].id : k \in 1..Len(nodes)}

\* every edge joins two different ids, each the id of a node of the node list
EdgesJoinDistinctNodes ==
    \A k \in 1..Len(edges) :
        /\ edges[k].source # edges[k].target
        /\ edges[k].source \in NodeIds
        /\ edges[k].target \in NodeIds

\* the title reads as the title of some note of the list
KnownTitle(title) == \E k \in 1..Len(genNotes) : SameLetters(genNotes[k].title, title)

\* note i has a link that reads as its own title, its other links read as no title of
\* the list, and no other note has a link that reads as its title
OnlyLinksToOwnTitle(i) ==
    /\ LinksTo(genNotes[i], genNotes[i])
    /\ \A k \in 1..Len(genNotes[i].links) :
           \/ SameLetters(genNotes[i].links[k], genNotes[i].title)
           \/ ~KnownTitle(genNotes[i].links[k])
    /\ \A j \in 1..Len(genNotes) : j # i => ~LinksTo(genNotes[j], genNotes[i])

\* note i has a link that resolves to itself, its other links resolve to no note, and
\* no link of another note resolves to it
OnlyLinksToItself(i) ==
    /\ ResolvesTo(i, i)
    /\ \A k \in 1..Len(genNotes[i].links) : Resolve(genNotes[i].links[k]) \in {0, i}
    /\ \A j \in 1..Len(genNotes) : j # i => ~ResolvesTo(j, i)

Unlinked(i) == nodes[i].connections = 0 /\ LinkDegree(nodes[i].id) = 0

\* C28 as stated: every edge joins two distinct nodes of the node list, and a note that
\* links to its own title gets no edge and no connection from it
C28_EdgesJoinDistinctNodesOwnTitle ==
    /\ EdgesJoinDistinctNodes
    /\ Generated => \A i \in 1..Len(genNotes) : OnlyLinksToOwnTitle(i) => Unlinked(i)

\* C28 amended: every edge joins two distinct nodes of the node list, and a note whose
\* link resolves to itself (it is the first note of the list with that title) gets no
\* edge and no connection from it
C28_EdgesJoinDistinctNodesSelfLink ==
    /\ EdgesJoinDistinctNodes
    /\ Generated => \A i \in 1..Len(genNotes) : OnlyLinksToItself(i) => Unlinked(i)

\* a refresh of a list with a note that links to itself, another note deleted since
\* the last generation, and edges between the others
C28_Witness ==
    /\ lastOp.name = "refresh"
    /\ ~lastOp.again
    /\ \E i \in 1..Len(genNotes) : OnlyLinksToItself(i)
    /\ Len(edges) >= 2

NoteIds == {notes[k].id : k \in 1..Len(notes)}

\* C29: after a refresh the node list has one node for each note of the note store,
\* in its order, with the note's id and velocity (0, 0), and no other node; every edge
\* joins ids of the store, so a note deleted since the last generation has no node
\* and no edge and a note added since has one node; the node objects are new, none
\* of them one the handler held before
C29_RefreshRebuildsNodes ==
    /\ [](lastOp.name = "refresh" =>
             /\ Len(nodes) = Len(notes)
             /\ \A k \in 1..Len(nodes) :
                    /\ nodes[k].id = notes[k].id
                    /\ nodes[k].title = notes[k].title
                    /\ nodes[k].vx = 0
                    /\ nodes[k].vy = 0
             /\ \A id \in NoteIds : Cardinality({k \in 1..Len(nodes) : nodes[k].id = id}) = 1
             /\ \A k \in 1..Len(edges) : {edges[k].source, edges[k].target} \subseteq NoteIds)
    /\ [][lastOp'.name = "refresh" =>
             /\ \A id \in {genNotes[k].id : k \in 1..Len(genNotes)} \ NoteIds :
                    /\ \A k \in 1..Len(nodes') : nodes'[k].id # id
                    /\ \A k \in 1..Len(edges') : id \notin {edges'[k].source, edges'[k].target}
             /\ \A id \in NoteIds \ {genNotes[k].id : k \in 1..Len(genNotes)} :
                    Cardinality({k \in 1..Len(nodes') : nodes'[k].id = id}) = 1
             /\ \A r \in {dragNode', hoveredNode', selectedNode'} \ {NoRef} : r.gen # gen']_vars

\* a refresh that follows a change of the note store and leaves three nodes and one edge
C29_Witness ==
    /\ lastOp.name = "refresh"
    /\ ~lastOp.again
    /\ Len(nodes) = 3
    /\ Len(edges) = 1

(***************************************************************************)
(* Properties of the hit-test.                                             *)
(***************************************************************************)
\* node k contains the graph point under the screen point (sx, sy)
Contains(k, sx, sy) ==
    LET gx == Quot((sx - camera.x) * Milli, camera.zoom)
        gy == Quot((sy - camera.y) * Milli, camera.zoom)
    IN  (gx - nodes[k].x) * (gx - nodes[k].x) + (gy - nodes[k].y) * (gy - nodes[k].y)
            <= nodes[k].radius * nodes[k].radius

Containing(sx, sy) == {k \in 1..Len(nodes) : Contains(k, sx, sy)}

\* C30: the hit-test of a pointer-move with no button down makes a node the hovered
\* node only if the node contains the graph point (screen - pan) / zoom under the
\* pointer; of several such nodes it takes the first of the node list, and none if
\* there is none
C30_HitTestTakesFirstContaining ==
    [][lastOp'.name = "mousemove" /\ ~Dragging /\ ~Panning =>
           LET c == Containing(lastOp'.x, lastOp'.y)
           IN  /\ hoveredNode' # NoRef =>
                      hoveredNode'.gen = gen /\ hoveredNode'.idx \in c
               /\ c # {} =>
                      hoveredNode' # NoRef /\ \A m \in c : hoveredNode'.idx <= m
               /\ c = {} => hoveredNode' = NoRef]_vars

\* a pointer-move, the zoom not 1, to a point that two nodes contain, the second of
\* them at its centre
C30_Witness ==
    /\ lastOp.name = "mousemove"
    /\ camera.zoom # Milli
    /\ hoveredNode = Ref(1)
    /\ Len(nodes) >= 2
    /\ lastOp.x = ScreenX(2)
    /\ lastOp.y = ScreenY(2)

(***************************************************************************)
(* Properties of the hovered node and of touch input.                      *)
(***************************************************************************)
\* a pointer-move: a mousemove, or a touchmove that carries one touch
PointerMoved(op) ==
    \/ op.name = "mousemove"
    \/ op.name = "touchmove" /\ op.touches = 1

Idle == ~isDragging /\ ~isPanning

\* C31: a pointer-move received while neither dragging nor panning makes the hovered
\* node the hit-test result at the pointer; every other step (a pointer-move during a
\* drag or a pan, a press, a release, a click, a wheel event, and any other operation)
\* leaves the hovered node as it was
C31_HoverChangesOnIdleMoveOnly ==
    [][IF PointerMoved(lastOp') /\ Idle
       THEN hoveredNode' = Hit(lastOp'.x, lastOp'.y)
       ELSE hoveredNode' = hoveredNode]_vars

\* a pointer-move while the second node is dragged, the first node hovered before the
\* press and still
C31_Witness ==
    /\ lastOp.name = "mousemove"
    /\ isDragging
    /\ dragNode = Ref(2)
    /\ hoveredNode = Ref(1)

C33_HeldReferencesAreCurrent ==
    \A r \in {hoveredNode, selectedNode, dragNode} : r = NoRef \/ IsLive(r)

(***************************************************************************)
(* Properties of the host's renderers.                                     *)
(***************************************************************************)
\* the animation loops that run: the current renderer's and the replaced renderers'
LiveLoops ==
    {k \in 1..Len(replaced) : replaced[k].running /\ replaced[k].frame # 0}
    \cup (IF animation.running /\ pendingFrame # 0 THEN {0} ELSE {})

ResizeListeners == {l \in listeners : l[1] = "window" /\ l[2] = "resize"}

\* C34: at most one animation loop of a GraphRenderer of the graph container runs, and
\* at most one of their resize listeners is registered on the window, however often
\* the host has rendered the graph view
C34_OneLoopOneResizeListener ==
    /\ Cardinality(LiveLoops) <= 1
    /\ Cardinality(ResizeListeners) <= 1

(***************************************************************************)
(* Properties of the generated positions.                                  *)
(***************************************************************************)
InsideViewport(node) ==
    /\ 0 <= node.x /\ node.x <= canvas.w
    /\ 0 <= node.y /\ node.y <= canvas.h

\* C35: right after a generation every node lies inside the viewport, 0 <= x <= width
\* and 0 <= y <= height
C35_GeneratedNodesInsideViewport ==
    lastOp.name = "refresh" => \A k \in 1..Len(nodes) : InsideViewport(nodes[k])

\* a generation that drew two opposite corners of the viewport: the bounding box is
\* as large as it can be, and its nodes stay within a pixel of the corners
C35_Witness ==
    /\ lastOp.name = "refresh"
    /\ \E i, j \in 1..Len(nodes) :
           /\ nodes[i].x <= Unit /\ nodes[i].y <= Unit
           /\ nodes[j].x >= canvas.w - Unit /\ nodes[j].y >= canvas.h - Unit

(***************************************************************************)
(* Properties of the note store.                                           *)
(***************************************************************************)
\* C36: the links of every stored note are the titles extracted from its content, each
\* once
C36_LinksMatchContent ==
    \A k \in 1..Len(notes) : notes[k].links = ExtractLinks(notes[k].content)

\* the notes other than id are what they were, in the order they were in
OthersKept(id) == MapDelete(notes', id) = MapDelete(notes, id)

\* the note id carries the title and the content of the updates, where they have one
Applied(id, updates) ==
    /\ Len(notes') = Len(notes)
    /\ \A k \in 1..Len(notes) :
           notes[k].id = id =>
               /\ notes'[k].id = id
               /\ "title" \in updates.has => notes'[k].title = updates.title
               /\ "title" \notin updates.has => notes'[k].title = notes[k].title
               /\ "content" \in updates.has => notes'[k].content = updates.content
               /\ "content" \notin updates.has => notes'[k].content = notes[k].content

\* C37: updateNote and deleteNote with an id that is not in the collection return
\* false, change neither the collection nor the stored data and emit nothing; with an
\* id that is in it they return true, apply the change, and emit noteUpdated or
\* noteDeleted and then notesChanged, once
C37_MissingIdChangesNothing ==
    [][lastOp'.name \in {"updateNote", "deleteNote"} =>
           LET id == lastCall'.id
           IN  IF ~Has(notes, id)
               THEN /\ lastCall'.returned = "false"
                    /\ lastCall'.emitted = <<>>
                    /\ UNCHANGED <<notes, storage>>
               ELSE /\ lastCall'.returned = "true"
                    /\ OthersKept(id)
                    /\ IF lastOp'.name = "updateNote"
                       THEN /\ Applied(id, lastCall'.arg)
                            /\ lastCall'.emitted = <<"noteUpdated", "notesChanged">>
                       ELSE /\ ~Has(notes', id)
                            /\ lastCall'.emitted = <<"noteDeleted", "notesChanged">>]_vars

\* an updateNote with an id that is not in a collection of one stored note
C37_Witness ==
    /\ lastCall.name = "updateNote"
    /\ lastCall.returned = "false"
    /\ Len(notes) = 1
    /\ storage.present
    /\ "content" \in lastCall.arg.has

\* the entry is in the collection: a note with its id, title, content and tags
Imported(entry, ns) ==
    \E k \in 1..Len(ns) :
        /\ ns[k].id = entry.id
        /\ ns[k].title = entry.title
        /\ ns[k].content = entry.content
        /\ ns[k].tags = entry.tags

\* C38: an importNotes that returns false leaves the collection and the stored data as
\* they were and emits nothing; one that returns true has put every entry of its input
\* in the collection and emitted notesChanged once
C38_ImportIsAllOrNothing ==
    [][lastOp'.name = "importNotes" =>
           IF lastCall'.returned = "false"
           THEN /\ UNCHANGED <<notes, storage>>
                /\ lastCall'.emitted = <<>>
           ELSE /\ \A k \in 1..Len(lastCall'.arg.notes) :
                       Imported(lastCall'.arg.notes[k], notes')
                /\ lastCall'.emitted = <<"notesChanged">>]_vars

====
